---- MODULE Spec2Model ----
(***************************************************************************)
(* The control plane core of nginx-kubernetes-gateway: backend resolution  *)
(* (resolveBackendRefs), the configuration builder (buildConfiguration)    *)
(* and the nginx config generation (createUpstreams, createServer,         *)
(* createSplitClients), as one reconciliation cycle over a graph.          *)
(*                                                                         *)
(* Go strings are byte sequences (<<102, 111, 111>> is "foo"), so that the *)
(* byte order sort.Slice compares by and the text fmt.Sprintf builds are   *)
(* what the model computes.  A nil pointer is the empty sequence <<>>, a   *)
(* set pointer the one-element sequence <<v>>.  A Go map is a function; a  *)
(* range over it can take its keys in any order, so a function that ranges *)
(* over a map is the set of the results it can return.                     *)
(***************************************************************************)
EXTENDS Integers, Sequences, FiniteSets, TLC

VARIABLES
    context,        \* the ctx of the cycle: "live" or "cancelled"
    gatewayClass,   \* graph.GatewayClass: "nil", "invalid" or "valid"
    gatewayPresent, \* graph.Gateway # nil
    listeners,      \* graph.Gateway.Listeners: section name -> listener
    routes,         \* graph.Routes: route id -> route (with its BackendRefs)
    pc,             \* position of the reconciliation cycle
    conf,           \* the Configuration buildConfiguration returned
    nginx,          \* what the generator made of conf
    call            \* a function called on its own: [op, in, out], or <<>>

vars == <<context, gatewayClass, gatewayPresent, listeners, routes, pc, conf, nginx, call>>

----------------------------------------------------------------------------
(* Helpers standing for Go builtins *)

\* range over a slice with an accumulator
RECURSIVE FoldLeft(_, _, _)
FoldLeft(Op(_, _), acc, s) ==
    IF s = <<>> THEN acc ELSE FoldLeft(Op, Op(acc, Head(s)), Tail(s))

\* the orders in which a range over a map with key set S can visit it
Perms(S) ==
    {s \in [1..Cardinality(S) -> S] :
        \A i, j \in 1..Cardinality(S) : i # j => s[i] # s[j]}

\* a range over a Go map with key set K: the accumulators it can end with,
\* over every order of visiting K; Body(acc, k) is the set of accumulators
\* one iteration can leave
RECURSIVE RangeIn(_, _, _)
RangeIn(Body(_, _), accs, order) ==
    IF order = <<>> THEN accs
    ELSE RangeIn(Body, UNION {Body(a, Head(order)) : a \in accs}, Tail(order))

RangeMap(accs, K, Body(_, _)) ==
    UNION {RangeIn(Body, accs, order) : order \in Perms(K)}

\* a < b on Go strings: bytewise lexicographic
RECURSIVE StrLess(_, _)
StrLess(a, b) ==
    IF b = <<>> THEN FALSE
    ELSE IF a = <<>> THEN TRUE
    ELSE IF Head(a) # Head(b) THEN Head(a) < Head(b)
    ELSE StrLess(Tail(a), Tail(b))

\* sort.Slice on a short slice (insertion sort: an element moves left while
\* it is less than its left neighbour)
RECURSIVE InsertSorted(_, _, _)
InsertSorted(Less(_, _), s, x) ==
    IF s = <<>> THEN <<x>>
    ELSE IF Less(x, s[Len(s)])
         THEN Append(InsertSorted(Less, SubSeq(s, 1, Len(s) - 1), x), s[Len(s)])
         ELSE Append(s, x)

SortSlice(Less(_, _), s) ==
    FoldLeft(LAMBDA acc, e : InsertSorted(Less, acc, e), <<>>, s)

\* strconv / %d of a non-negative int
RECURSIVE Itoa(_)
Itoa(n) == IF n < 10 THEN <<48 + n>> ELSE Itoa(n \div 10) \o <<48 + (n % 10)>>

Range(s) == {s[i] : i \in DOMAIN s}

----------------------------------------------------------------------------
(* Names of the cluster snapshot *)

Underscore == <<95>>
TestNs  == <<116, 101, 115, 116>>                     \* "test"
OtherNs == <<111, 116, 104, 101, 114>>                \* "other"
Foo == <<102, 111, 111>>                              \* hostname "foo"
Bar == <<98, 97, 114>>                                \* hostname "bar"
Svc1 == <<115, 49>>                                   \* Service "s1"
Svc2 == <<115, 50>>                                   \* Service "s2"
Svc3 == <<115, 51>>                                   \* Service "s3"
SvcDne == <<100, 110, 101>>                           \* Service "dne"
PathRoot == <<47>>                                    \* "/"
PathA == <<47, 97>>                                   \* "/a"

\* const wildcardHostname = "~^"
wildcardHostname == <<126, 94>>

----------------------------------------------------------------------------
(* The cluster the cycle reads: Services and what the endpoint resolver     *)
(* answers for them.                                                        *)

\* services map[types.NamespacedName]*v1.Service: s1, s2 and s3 exist in the
\* namespace "test", dne does not
Services ==
    [k \in {[Namespace |-> TestNs, Name |-> n] : n \in {Svc1, Svc2, Svc3}} |->
        [Namespace |-> k.Namespace, Name |-> k.Name]]

\* resolver.ServiceResolver.Resolve: with a cancelled ctx every call fails
\* (nil and an error); else s1 has one ready endpoint, s2 has none (an empty
\* list and no error), resolving s3 fails (nil and an error)
Resolve(ctx, svc, port) ==
    IF ctx = "cancelled" THEN [eps |-> <<>>, err |-> <<"context canceled">>]
    ELSE IF svc.Name = Svc3 THEN [eps |-> <<>>, err |-> <<"resolve error">>]
    ELSE IF svc.Name = Svc1
         THEN [eps |-> <<[Address |-> <<49, 48, 46, 48, 46, 48, 46, 49>>, Port |-> 8080]>>,
               err |-> <<>>]
         ELSE [eps |-> <<>>, err |-> <<>>]

----------------------------------------------------------------------------
(* Backend resolver *)

MapPut(m, k, v) == [x \in DOMAIN m \cup {k} |-> IF x = k THEN v ELSE m[x]]

newBackendRefs == [Errors |-> <<>>, Resolved |-> <<>>, ByRule |-> <<>>]

\* validateBackendRef that takes an unset kind for a kind other than Service
validateBackendRef_kindRequired(ref, routeNs) ==
    IF ref.Kind = <<>> \/ ref.Kind[1] # "Service"
    THEN <<"the Kind must be Service">>
    ELSE IF ref.Namespace # <<>> /\ ref.Namespace[1] # routeNs
    THEN <<"cross-namespace routing is not permitted">>
    ELSE IF ref.Port = <<>>
    THEN <<"port is missing">>
    ELSE <<>>

validateBackendRef(ref, routeNs) ==
    IF ref.Kind # <<>> /\ ref.Kind[1] # "Service"
    THEN <<"the Kind must be Service">>
    ELSE IF ref.Namespace # <<>> /\ ref.Namespace[1] # routeNs
    THEN <<"cross-namespace routing is not permitted">>
    ELSE IF ref.Port = <<>>
    THEN <<"port is missing">>
    ELSE <<>>

getServiceAndPortFromRef(ref, routeNamespace, services) ==
    LET err == validateBackendRef(ref, routeNamespace)
        svcNsName == [Namespace |-> routeNamespace, Name |-> ref.Name]
    IN  IF err # <<>> THEN [svc |-> <<>>, port |-> 0, err |-> err]
        ELSE IF svcNsName \notin DOMAIN services
        THEN [svc |-> <<>>, port |-> 0, err |-> <<"the Service does not exist">>]
        ELSE [svc |-> <<services[svcNsName]>>, port |-> ref.Port[1], err |-> <<>>]

\* fmt.Sprintf("%s_%s_%d", svc.Namespace, svc.Name, port)
backendName(svc, port) ==
    svc.Namespace \o Underscore \o svc.Name \o Underscore \o Itoa(port)

\* resolveRef with a resolver error ending the iteration before the endpoints
\* are put into Resolved
resolveRef_skipResolvedOnError(ctx, routeNamespace, services, acc, ref) ==
    LET weight == IF ref.Weight # <<>> THEN ref.Weight[1] ELSE 1
        got == getServiceAndPortFromRef(ref, routeNamespace, services)
    IN  IF got.err # <<>>
        THEN [backends |-> Append(acc.backends,
                                  [Name |-> <<>>, Valid |-> FALSE, Weight |-> weight]),
              Errors |-> Append(acc.Errors, got.err[1]),
              Resolved |-> acc.Resolved]
        ELSE LET name == backendName(got.svc[1], got.port)
                 res == Resolve(ctx, got.svc[1], ref.Port[1])
             IN  [backends |-> Append(acc.backends,
                                      [Name |-> name, Valid |-> TRUE, Weight |-> weight]),
                  Errors |-> IF res.err # <<>>
                             THEN Append(acc.Errors, res.err[1])
                             ELSE acc.Errors,
                  Resolved |-> IF res.err # <<>> THEN acc.Resolved
                               ELSE MapPut(acc.Resolved, name, res.eps)]

\* resolveRef with a backendRef that fails leaving no entry in the backends
resolveRef_dropFailedRef(ctx, routeNamespace, services, acc, ref) ==
    LET weight == IF ref.Weight # <<>> THEN ref.Weight[1] ELSE 1
        got == getServiceAndPortFromRef(ref, routeNamespace, services)
    IN  IF got.err # <<>>
        THEN [backends |-> acc.backends,
              Errors |-> Append(acc.Errors, got.err[1]),
              Resolved |-> acc.Resolved]
        ELSE LET name == backendName(got.svc[1], got.port)
                 res == Resolve(ctx, got.svc[1], ref.Port[1])
             IN  [backends |-> Append(acc.backends,
                                      [Name |-> name, Valid |-> TRUE, Weight |-> weight]),
                  Errors |-> IF res.err # <<>>
                             THEN Append(acc.Errors, res.err[1])
                             ELSE acc.Errors,
                  Resolved |-> MapPut(acc.Resolved, name, res.eps)]

\* the body of the loop over rule.BackendRefs; acc carries the backends slice
\* of the rule and the route's BackendRefs.Errors and BackendRefs.Resolved
resolveRef(ctx, routeNamespace, services, acc, ref) ==
    LET weight == IF ref.Weight # <<>> THEN ref.Weight[1] ELSE 1
        got == getServiceAndPortFromRef(ref, routeNamespace, services)
    IN  IF got.err # <<>>
        THEN [backends |-> Append(acc.backends,
                                  [Name |-> <<>>, Valid |-> FALSE, Weight |-> weight]),
              Errors |-> Append(acc.Errors, got.err[1]),
              Resolved |-> acc.Resolved]
        ELSE LET name == backendName(got.svc[1], got.port)
                 res == Resolve(ctx, got.svc[1], ref.Port[1])
             IN  [backends |-> Append(acc.backends,
                                      [Name |-> name, Valid |-> TRUE, Weight |-> weight]),
                  Errors |-> IF res.err # <<>>
                             THEN Append(acc.Errors, res.err[1])
                             ELSE acc.Errors,
                  Resolved |-> MapPut(acc.Resolved, name, res.eps)]

\* the body of the loop over r.Source.Spec.Rules, for the rule at Go index idx
resolveRule(ctx, r, services, refs, idx) ==
    LET rule == r.Rules[idx + 1]
        done == FoldLeft(LAMBDA acc, ref : resolveRef(ctx, r.Namespace, services, acc, ref),
                         [backends |-> <<>>, Errors |-> refs.Errors,
                          Resolved |-> refs.Resolved],
                         rule.BackendRefs)
    IN  [Errors |-> done.Errors,
         Resolved |-> done.Resolved,
         ByRule |-> MapPut(refs.ByRule, idx,
                           [Source |-> [Namespace |-> r.Namespace, Name |-> r.Name],
                            RuleIdx |-> idx,
                            Backends |-> done.backends])]

\* resolveBackendRefsForRoutes: every route gets its BackendRefs filled in
resolveBackendRefsForRoutes(ctx, rs, services) ==
    [id \in DOMAIN rs |->
        [rs[id] EXCEPT !.BackendRefs =
            FoldLeft(LAMBDA refs, i : resolveRule(ctx, rs[id], services, refs, i - 1),
                     rs[id].BackendRefs,
                     [i \in 1..Len(rs[id].Rules) |-> i])]]

----------------------------------------------------------------------------
(* BackendGroup *)

BackendGroup_NeedsSplit(bg) == Len(bg.Backends) > 1

\* fmt.Sprintf("%s_%s_rule%d", bg.Source.Namespace, bg.Source.Name, bg.RuleIdx)
BackendGroup_GroupName(bg) ==
    bg.Source.Namespace \o Underscore \o bg.Source.Name
        \o <<95, 114, 117, 108, 101>> \o Itoa(bg.RuleIdx)

\* Name without the test of the weight of a single backend
BackendGroup_Name_ignoringWeight(bg) ==
    IF Len(bg.Backends) = 0 THEN <<>>
    ELSE IF Len(bg.Backends) = 1
    THEN LET b == bg.Backends[1]
         IN  IF ~b.Valid THEN <<>> ELSE b.Name
    ELSE BackendGroup_GroupName(bg)

BackendGroup_Name(bg) ==
    IF Len(bg.Backends) = 0 THEN <<>>
    ELSE IF Len(bg.Backends) = 1
    THEN LET b == bg.Backends[1]
         IN  IF b.Weight <= 0 \/ ~b.Valid THEN <<>> ELSE b.Name
    ELSE BackendGroup_GroupName(bg)

\* the zero value a Go map lookup gives for a missing rule index
zeroBackendGroup ==
    [Source |-> [Namespace |-> <<>>, Name |-> <<>>], RuleIdx |-> 0, Backends |-> <<>>]

----------------------------------------------------------------------------
(* Configuration builder *)

\* MatchRule.GetMatch: r.Source.Spec.Rules[r.RuleIdx].Matches[r.MatchIdx]; the
\* Source of a MatchRule is the id of its route in rs
GetMatch(rs, r) == rs[r.Source].Rules[r.RuleIdx + 1].Matches[r.MatchIdx + 1]

emptyConfiguration ==
    [HTTPServers |-> <<>>, SSLServers |-> <<>>, Upstreams |-> <<>>, BackendGroups |-> <<>>]

getHostname(h) == IF h = <<>> THEN <<>> ELSE h[1]

getListenerHostname(h) ==
    LET name == getHostname(h)
    IN  IF name = <<>> THEN wildcardHostname ELSE name

getPath(path) == IF path = <<>> \/ path[1] = <<>> THEN PathRoot ELSE path[1]

\* createFilters with a later RequestRedirect filter replacing an earlier one
createFilters_lastWins(filters) ==
    LET redirects == {i \in DOMAIN filters : filters[i].Type = "RequestRedirect"}
    IN  IF redirects = {} THEN [RequestRedirect |-> <<>>]
        ELSE [RequestRedirect |->
                filters[CHOOSE i \in redirects : \A j \in redirects : j <= i].RequestRedirect]

RECURSIVE createFilters(_)
createFilters(filters) ==
    IF filters = <<>> THEN [RequestRedirect |-> <<>>]
    ELSE IF Head(filters).Type = "RequestRedirect"
    THEN [RequestRedirect |-> Head(filters).RequestRedirect]
    ELSE createFilters(Tail(filters))

\* lessObjectMeta order of two routes: creation timestamp, then namespaced name
lessObjectMeta(a, b) ==
    IF a.CreationTimestamp # b.CreationTimestamp
    THEN a.CreationTimestamp < b.CreationTimestamp
    ELSE IF a.Namespace # b.Namespace THEN StrLess(a.Namespace, b.Namespace)
    ELSE StrLess(a.Name, b.Name)

\* sortMatchRules: by route (timestamp, namespaced name), then (RuleIdx, MatchIdx)
sortMatchRules(rs, matchRules) ==
    SortSlice(LAMBDA x, y :
                IF x.Source # y.Source THEN lessObjectMeta(rs[x.Source], rs[y.Source])
                ELSE IF x.RuleIdx # y.RuleIdx THEN x.RuleIdx < y.RuleIdx
                ELSE x.MatchIdx < y.MatchIdx,
              matchRules)

newHostPathRules == [rulesPerHost |-> <<>>, listenersForHost |-> <<>>, listeners |-> <<>>]

\* upsertMatch with the two indexes of the MatchRule swapped
upsertMatch_swappedIndexes(hpr, rs, id, i, filters, h, j) ==
    LET r == rs[id]
        path == getPath(r.Rules[i + 1].Matches[j + 1].Path)
        exist == path \in DOMAIN hpr.rulesPerHost[h]
        old == IF exist THEN hpr.rulesPerHost[h][path]
               ELSE [Path |-> path, MatchRules |-> <<>>]
        rule == [old EXCEPT !.MatchRules =
                    Append(@, [MatchIdx |-> i,
                               RuleIdx |-> j,
                               Source |-> id,
                               BackendGroup |->
                                   IF i \in DOMAIN r.BackendRefs.ByRule
                                   THEN r.BackendRefs.ByRule[i]
                                   ELSE zeroBackendGroup,
                               Filters |-> filters])]
    IN  [hpr EXCEPT !.rulesPerHost =
            MapPut(@, h, MapPut(hpr.rulesPerHost[h], path, rule))]

\* the innermost loop body of upsertListener: the match at Go index j of the
\* rule at Go index i of route id, under hostname h
upsertMatch(hpr, rs, id, i, filters, h, j) ==
    LET r == rs[id]
        path == getPath(r.Rules[i + 1].Matches[j + 1].Path)
        exist == path \in DOMAIN hpr.rulesPerHost[h]
        old == IF exist THEN hpr.rulesPerHost[h][path]
               ELSE [Path |-> path, MatchRules |-> <<>>]
        rule == [old EXCEPT !.MatchRules =
                    Append(@, [MatchIdx |-> j,
                               RuleIdx |-> i,
                               Source |-> id,
                               BackendGroup |->
                                   IF i \in DOMAIN r.BackendRefs.ByRule
                                   THEN r.BackendRefs.ByRule[i]
                                   ELSE zeroBackendGroup,
                               Filters |-> filters])]
    IN  [hpr EXCEPT !.rulesPerHost =
            MapPut(@, h, MapPut(hpr.rulesPerHost[h], path, rule))]

\* upsertRoute taking every hostname of the route, accepted by the listener
\* or not
upsertRoute_unfilteredHostnames(hpr, ls, rs, lname, id) ==
    LET r == rs[id]
        hostnames == r.Hostnames
        hpr1 == FoldLeft(LAMBDA acc, h :
                    [acc EXCEPT !.listenersForHost = MapPut(@, h, lname),
                                !.rulesPerHost =
                                    IF h \in DOMAIN acc.rulesPerHost THEN @
                                    ELSE MapPut(@, h, <<>>)],
                    hpr, hostnames)
        idxs(n) == [k \in 1..n |-> k - 1]
    IN  FoldLeft(LAMBDA acc1, i :
            FoldLeft(LAMBDA acc2, h :
                FoldLeft(LAMBDA acc3, j :
                            upsertMatch(acc3, rs, id, i,
                                        createFilters(r.Rules[i + 1].Filters), h, j),
                         acc2, idxs(Len(r.Rules[i + 1].Matches))),
                acc1, hostnames),
            hpr1, idxs(Len(r.Rules)))

\* the loop body of upsertListener for one route of listener lname
upsertRoute(hpr, ls, rs, lname, id) ==
    LET l == ls[lname]
        r == rs[id]
        hostnames == SelectSeq(r.Hostnames, LAMBDA h : h \in l.AcceptedHostnames)
        hpr1 == FoldLeft(LAMBDA acc, h :
                    [acc EXCEPT !.listenersForHost = MapPut(@, h, lname),
                                !.rulesPerHost =
                                    IF h \in DOMAIN acc.rulesPerHost THEN @
                                    ELSE MapPut(@, h, <<>>)],
                    hpr, hostnames)
        idxs(n) == [k \in 1..n |-> k - 1]
    IN  FoldLeft(LAMBDA acc1, i :
            FoldLeft(LAMBDA acc2, h :
                FoldLeft(LAMBDA acc3, j :
                            upsertMatch(acc3, rs, id, i,
                                        createFilters(r.Rules[i + 1].Filters), h, j),
                         acc2, idxs(Len(r.Rules[i + 1].Matches))),
                acc1, hostnames),
            hpr1, idxs(Len(r.Rules)))

\* hostPathRules.upsertListener: the states of hpr the call can leave, one per
\* order of the range over l.Routes
upsertListener(hpr, ls, rs, lname) ==
    LET hpr0 == IF ls[lname].Protocol = "HTTPS"
                THEN [hpr EXCEPT !.listeners = Append(@, lname)]
                ELSE hpr
    IN  RangeMap({hpr0}, ls[lname].Routes,
                 LAMBDA acc, id : {upsertRoute(acc, ls, rs, lname, id)})

sslOf(l) == IF l.SecretPath # <<>> THEN <<[CertificatePath |-> l.SecretPath]>> ELSE <<>>

\* serversForHosts without the call of sortMatchRules
serversForHosts_unsortedMatchRules(hpr, ls, rs) ==
    RangeMap({<<>>}, DOMAIN hpr.rulesPerHost,
        LAMBDA servers, h :
            {Append(servers,
                    [Hostname |-> h,
                     PathRules |-> SortSlice(LAMBDA a, b : StrLess(a.Path, b.Path), prs),
                     SSL |-> sslOf(ls[hpr.listenersForHost[h]])]) :
                prs \in RangeMap({<<>>}, DOMAIN hpr.rulesPerHost[h],
                            LAMBDA acc, p : {Append(acc, hpr.rulesPerHost[h][p])})})

\* the first loop of hostPathRules.buildServers: the servers slices it can
\* build from rulesPerHost (both ranges are over maps)
serversForHosts(hpr, ls, rs) ==
    RangeMap({<<>>}, DOMAIN hpr.rulesPerHost,
        LAMBDA servers, h :
            {Append(servers,
                    [Hostname |-> h,
                     PathRules |-> SortSlice(LAMBDA a, b : StrLess(a.Path, b.Path), prs),
                     SSL |-> sslOf(ls[hpr.listenersForHost[h]])]) :
                prs \in RangeMap({<<>>}, DOMAIN hpr.rulesPerHost[h],
                            LAMBDA acc, p :
                                {Append(acc, [hpr.rulesPerHost[h][p] EXCEPT
                                                !.MatchRules = sortMatchRules(rs, @)])})})

\* serversForListeners with a server only for the listeners without routes
serversForListeners_onlyWithoutRoutes(hpr, ls, servers) ==
    FoldLeft(LAMBDA acc, lname :
                IF ls[lname].Routes = {}
                THEN Append(acc, [Hostname |-> getListenerHostname(ls[lname].Hostname),
                                  PathRules |-> <<>>,
                                  SSL |-> sslOf(ls[lname])])
                ELSE acc,
             servers, hpr.listeners)

\* the second loop of hostPathRules.buildServers, over the slice hpr.listeners
serversForListeners(hpr, ls, servers) ==
    FoldLeft(LAMBDA acc, lname :
                LET hostname == getListenerHostname(ls[lname].Hostname)
                IN  IF ls[lname].Routes = {} \/ hostname = wildcardHostname
                    THEN Append(acc, [Hostname |-> hostname,
                                      PathRules |-> <<>>,
                                      SSL |-> sslOf(ls[lname])])
                    ELSE acc,
             servers, hpr.listeners)

\* hostPathRules.buildServers without the sort of the servers
hostPathRules_buildServers_unsorted(hpr, ls, rs) ==
    IF \E h \in DOMAIN hpr.rulesPerHost : h \notin DOMAIN hpr.listenersForHost
    THEN {[panic |-> TRUE, servers |-> <<>>]}
    ELSE {[panic |-> FALSE, servers |-> serversForListeners(hpr, ls, s)] :
            s \in serversForHosts(hpr, ls, rs)}

\* hostPathRules.buildServers: the set of its outcomes, a panic or a slice
hostPathRules_buildServers(hpr, ls, rs) ==
    IF \E h \in DOMAIN hpr.rulesPerHost : h \notin DOMAIN hpr.listenersForHost
    THEN {[panic |-> TRUE, servers |-> <<>>]}
    ELSE {[panic |-> FALSE,
           servers |-> SortSlice(LAMBDA a, b : StrLess(a.Hostname, b.Hostname),
                                 serversForListeners(hpr, ls, s))] :
            s \in serversForHosts(hpr, ls, rs)}

\* buildServers without the test of l.Valid
buildServers_invalidListenersToo(ls, rs) ==
    LET hprs == RangeMap({[p \in {"HTTP", "HTTPS"} |-> newHostPathRules]}, DOMAIN ls,
                    LAMBDA acc, lname :
                        {[acc EXCEPT ![ls[lname].Protocol] = h] :
                            h \in upsertListener(acc[ls[lname].Protocol], ls, rs, lname)})
    IN  UNION {{[panic |-> a.panic \/ b.panic, http |-> a.servers, ssl |-> b.servers] :
                    a \in hostPathRules_buildServers(m["HTTP"], ls, rs),
                    b \in hostPathRules_buildServers(m["HTTPS"], ls, rs)} :
               m \in hprs}

\* buildServers: the outcomes for the HTTP and the HTTPS bucket
buildServers(ls, rs) ==
    LET hprs == RangeMap({[p \in {"HTTP", "HTTPS"} |-> newHostPathRules]}, DOMAIN ls,
                    LAMBDA acc, lname :
                        IF ls[lname].Valid
                        THEN {[acc EXCEPT ![ls[lname].Protocol] = h] :
                                h \in upsertListener(acc[ls[lname].Protocol], ls, rs, lname)}
                        ELSE {acc})
    IN  UNION {{[panic |-> a.panic \/ b.panic, http |-> a.servers, ssl |-> b.servers] :
                    a \in hostPathRules_buildServers(m["HTTP"], ls, rs),
                    b \in hostPathRules_buildServers(m["HTTPS"], ls, rs)} :
               m \in hprs}

\* the slices a range over map m can append, one per order
mapValues(m) ==
    {[i \in 1..Len(p) |-> m[p[i]]] : p \in Perms(DOMAIN m)}

\* buildUpstreams without the check of l.Valid
buildUpstreams_invalidListenersToo(ls, rs) ==
    LET uniqueUpstreams ==
            RangeMap({<<>>}, DOMAIN ls,
                LAMBDA acc, lname :
                    RangeMap({acc}, ls[lname].Routes,
                        LAMBDA acc2, id :
                            RangeMap({acc2}, DOMAIN rs[id].BackendRefs.Resolved,
                                LAMBDA acc3, name :
                                    {IF name \in DOMAIN acc3 THEN acc3
                                     ELSE MapPut(acc3, name,
                                            [Name |-> name,
                                             Endpoints |->
                                                rs[id].BackendRefs.Resolved[name]])})))
    IN  UNION {{SortSlice(LAMBDA a, b : StrLess(a.Name, b.Name), upstreams) :
                    upstreams \in mapValues(m)} :
               m \in uniqueUpstreams}

\* buildUpstreams: the slices it can return
buildUpstreams(ls, rs) ==
    LET uniqueUpstreams ==
            RangeMap({<<>>}, DOMAIN ls,
                LAMBDA acc, lname :
                    IF ~ls[lname].Valid THEN {acc}
                    ELSE RangeMap({acc}, ls[lname].Routes,
                            LAMBDA acc2, id :
                                RangeMap({acc2}, DOMAIN rs[id].BackendRefs.Resolved,
                                    LAMBDA acc3, name :
                                        {IF name \in DOMAIN acc3 THEN acc3
                                         ELSE MapPut(acc3, name,
                                                [Name |-> name,
                                                 Endpoints |->
                                                    rs[id].BackendRefs.Resolved[name]])})))
    IN  UNION {{SortSlice(LAMBDA a, b : StrLess(a.Name, b.Name), upstreams) :
                    upstreams \in mapValues(m)} :
               m \in uniqueUpstreams}

\* buildBackendGroups without the sort of the groups
buildBackendGroups_unsorted(ls, rs) ==
    UNION {mapValues(m) :
           m \in RangeMap({<<>>}, DOMAIN ls,
                    LAMBDA acc, lname :
                        IF ~ls[lname].Valid THEN {acc}
                        ELSE RangeMap({acc}, ls[lname].Routes,
                                LAMBDA acc2, id :
                                    RangeMap({acc2}, DOMAIN rs[id].BackendRefs.ByRule,
                                        LAMBDA acc3, i :
                                            LET group == rs[id].BackendRefs.ByRule[i]
                                            IN  {IF BackendGroup_GroupName(group) \in DOMAIN acc3
                                                 THEN acc3
                                                 ELSE MapPut(acc3,
                                                             BackendGroup_GroupName(group),
                                                             group)})))}

\* buildBackendGroups: the slices it can return
buildBackendGroups(ls, rs) ==
    LET uniqueGroups ==
            RangeMap({<<>>}, DOMAIN ls,
                LAMBDA acc, lname :
                    IF ~ls[lname].Valid THEN {acc}
                    ELSE RangeMap({acc}, ls[lname].Routes,
                            LAMBDA acc2, id :
                                RangeMap({acc2}, DOMAIN rs[id].BackendRefs.ByRule,
                                    LAMBDA acc3, i :
                                        LET group == rs[id].BackendRefs.ByRule[i]
                                        IN  {IF BackendGroup_GroupName(group) \in DOMAIN acc3
                                             THEN acc3
                                             ELSE MapPut(acc3, BackendGroup_GroupName(group),
                                                         group)})))
    IN  UNION {{SortSlice(LAMBDA a, b : StrLess(BackendGroup_GroupName(a),
                                                BackendGroup_GroupName(b)), groups) :
                    groups \in mapValues(m)} :
               m \in uniqueGroups}

\* buildConfiguration without the Valid test of the GatewayClass
buildConfiguration_ignoringValid(gc, gw, ls, rs) ==
    IF gc = "nil" THEN {[panic |-> FALSE, conf |-> emptyConfiguration]}
    ELSE IF ~gw THEN {[panic |-> FALSE, conf |-> emptyConfiguration]}
    ELSE {[panic |-> s.panic,
           conf |-> [HTTPServers |-> s.http, SSLServers |-> s.ssl,
                     Upstreams |-> u, BackendGroups |-> g]] :
            u \in buildUpstreams(ls, rs),
            s \in buildServers(ls, rs),
            g \in buildBackendGroups(ls, rs)}

\* buildConfiguration: the outcomes it can have for the graph, a panic or a
\* Configuration
buildConfiguration(gc, gw, ls, rs) ==
    IF gc # "valid" THEN {[panic |-> FALSE, conf |-> emptyConfiguration]}
    ELSE IF ~gw THEN {[panic |-> FALSE, conf |-> emptyConfiguration]}
    ELSE {[panic |-> s.panic,
           conf |-> [HTTPServers |-> s.http, SSLServers |-> s.ssl,
                     Upstreams |-> u, BackendGroups |-> g]] :
            u \in buildUpstreams(ls, rs),
            s \in buildServers(ls, rs),
            g \in buildBackendGroups(ls, rs)}

----------------------------------------------------------------------------
(* float64 arithmetic (IEEE 754 binary64, round to nearest even) as         *)
(* percentOf and createSplitClientDistributions use it.  A finite float64   *)
(* is [neg, bits, frac]: bits is the magnitude in binary, most significant  *)
(* bit first and without leading zeros (<<>> is 0), of at most Precision    *)
(* bits; the value is (-1)^neg * bits * 2^-frac.  The values met here are   *)
(* far from the exponent limits.                                            *)

\* significand bits of a float64
Precision == 53

\* the binary digits of a natural number
RECURSIVE NatBits(_)
NatBits(n) == IF n = 0 THEN <<>> ELSE Append(NatBits(n \div 2), n % 2)

\* the natural number of a short binary numeral
RECURSIVE BitsNat(_)
BitsNat(b) ==
    IF b = <<>> THEN 0 ELSE 2 * BitsNat(SubSeq(b, 1, Len(b) - 1)) + b[Len(b)]

MinOf(S) == CHOOSE i \in S : \A j \in S : i <= j

MaxOf(S) == CHOOSE i \in S : \A j \in S : j <= i

TrimZeros(b) ==
    LET ones == {i \in DOMAIN b : b[i] = 1}
    IN  IF ones = {} THEN <<>> ELSE SubSeq(b, MinOf(ones), Len(b))

PadLeft(b, n) == [i \in 1..(n - Len(b)) |-> 0] \o b

PadRight(b, k) == b \o [i \in 1..k |-> 0]

\* b + 1
BitsInc(b) ==
    LET zeros == {i \in DOMAIN b : b[i] = 0}
    IN  IF zeros = {} THEN <<1>> \o [i \in DOMAIN b |-> 0]
        ELSE [i \in DOMAIN b |-> IF i < MaxOf(zeros) THEN b[i]
                                 ELSE IF i = MaxOf(zeros) THEN 1 ELSE 0]

\* a + b for numerals of the same length: the carry into a position comes
\* from the nearest position to its right where the digits are equal, and is
\* that digit
BitsAdd(a, b) ==
    LET equal == {j \in DOMAIN a : a[j] = b[j]}
        carryInto(i) ==
            LET same == {j \in equal : j > i}
            IN  IF same = {} THEN 0 ELSE a[MinOf(same)]
    IN  (IF carryInto(0) = 1 THEN <<1>> ELSE <<>>)
            \o [i \in DOMAIN a |-> (a[i] + b[i] + carryInto(i)) % 2]

\* a - b for numerals of the same length with a >= b: a position borrows when,
\* at the nearest position to its right where the digits differ, a has the 0
BitsSub(a, b) ==
    LET unequal == {j \in DOMAIN a : a[j] # b[j]}
        borrowFrom(i) ==
            LET diff == {j \in unequal : j > i}
            IN  IF diff = {} THEN 0 ELSE b[MinOf(diff)]
    IN  [i \in DOMAIN a |-> (a[i] - b[i] - borrowFrom(i) + 2) % 2]

\* b * c for a small natural c: the sum of the copies of b shifted to the
\* places of the 1 digits of c
BitsMul(b, c) ==
    LET cbits == NatBits(c)
        shifted(k) == PadRight(b, Len(cbits) - k)
        sum(x, y) == LET n == IF Len(x) > Len(y) THEN Len(x) ELSE Len(y)
                     IN  BitsAdd(PadLeft(x, n), PadLeft(y, n))
    IN  FoldLeft(LAMBDA acc, k : IF cbits[k] = 1 THEN sum(acc, shifted(k)) ELSE acc,
                 <<>>, [k \in DOMAIN cbits |-> k])

\* a < b for numerals of the same length
BitsLess(a, b) ==
    LET diff == {i \in DOMAIN a : a[i] # b[i]}
    IN  diff # {} /\ a[MinOf(diff)] < b[MinOf(diff)]

\* the float64 nearest to (-1)^neg * (bits + s) * 2^-frac, where 0 < s < 1
\* if sticky and s = 0 otherwise; on a tie the one with an even significand.
\* With sticky, bits has more than Precision digits.
RoundToFloat64(neg, bits, frac, sticky) ==
    LET b == TrimZeros(bits)
    IN  IF Len(b) <= Precision THEN [neg |-> neg, bits |-> b, frac |-> frac]
        ELSE LET kept == SubSeq(b, 1, Precision)
                 rest == SubSeq(b, Precision + 1, Len(b))
                 below == sticky \/ \E i \in 2..Len(rest) : rest[i] = 1
                 up == rest[1] = 1 /\ (below \/ kept[Precision] = 1)
                 m == IF up THEN BitsInc(kept) ELSE kept
             IN  IF Len(m) > Precision
                 THEN [neg |-> neg, bits |-> SubSeq(m, 1, Precision),
                       frac |-> frac - Len(rest) - 1]
                 ELSE [neg |-> neg, bits |-> m, frac |-> frac - Len(rest)]

\* float64(n) for a natural n below 2^31
Float64FromNat(n) == [neg |-> FALSE, bits |-> NatBits(n), frac |-> 0]

\* long division: the next n binary digits of r / t for a remainder r < t,
\* and the remainder they leave
RECURSIVE DivDigits(_, _, _)
DivDigits(r, t, n) ==
    IF n = 0 \/ r = 0 THEN [bits |-> [i \in 1..n |-> 0], r |-> r]
    ELSE IF n = 1 THEN [bits |-> <<(2 * r) \div t>>, r |-> (2 * r) % t]
    ELSE LET first == DivDigits(r, t, n \div 2)
             second == DivDigits(first.r, t, n - (n \div 2))
         IN  [bits |-> first.bits \o second.bits, r |-> second.r]

\* float64(n) / float64(t) for naturals n and t > 0: the quotient is
\* divided out to one significant digit more than Precision, the remainder
\* tells whether anything is left below
Float64Div(n, t) ==
    LET int == NatBits(n \div t)
        d1 == DivDigits(n % t, t, Precision + 1)
        have == Len(TrimZeros(int \o d1.bits))
        d2 == IF d1.r # 0 /\ have < Precision + 1
              THEN DivDigits(d1.r, t, Precision + 1 - have)
              ELSE [bits |-> <<>>, r |-> d1.r]
    IN  RoundToFloat64(FALSE, int \o d1.bits \o d2.bits,
                       Len(d1.bits) + Len(d2.bits), d2.r # 0)

\* x * float64(c) for a small natural c
Float64Mul(x, c) == RoundToFloat64(x.neg, BitsMul(x.bits, c), x.frac, FALSE)

\* math.Floor(x) for x >= 0, as a natural
Float64Floor(x) ==
    IF x.frac <= 0 THEN BitsNat(PadRight(x.bits, 0 - x.frac))
    ELSE IF Len(x.bits) <= x.frac THEN 0
    ELSE BitsNat(SubSeq(x.bits, 1, Len(x.bits) - x.frac))

\* a - b
Float64Sub(a, b) ==
    LET f == IF a.frac > b.frac THEN a.frac ELSE b.frac
        x0 == PadRight(a.bits, f - a.frac)
        y0 == PadRight(b.bits, f - b.frac)
        n == IF Len(x0) > Len(y0) THEN Len(x0) ELSE Len(y0)
        x == PadLeft(x0, n)
        y == PadLeft(y0, n)
    IN  IF a.neg # b.neg THEN RoundToFloat64(a.neg, BitsAdd(x, y), f, FALSE)
        ELSE IF x = y THEN [neg |-> FALSE, bits |-> <<>>, frac |-> 0]
        ELSE IF BitsLess(x, y) THEN RoundToFloat64(~a.neg, BitsSub(y, x), f, FALSE)
        ELSE RoundToFloat64(a.neg, BitsSub(x, y), f, FALSE)

\* fmt.Sprintf("%.2f", x): the sign, then the decimal with two digits after
\* the point that is nearest to |x|, on a tie the one with an even last digit
FormatFloat2(x) ==
    LET scaled == BitsMul(x.bits, 100)
        int == IF x.frac <= 0 THEN PadRight(scaled, 0 - x.frac)
               ELSE IF Len(scaled) <= x.frac THEN <<>>
               ELSE SubSeq(scaled, 1, Len(scaled) - x.frac)
        rest == IF x.frac <= 0 THEN <<>>
                ELSE IF Len(scaled) <= x.frac THEN PadLeft(scaled, x.frac)
                ELSE SubSeq(scaled, Len(scaled) - x.frac + 1, Len(scaled))
        h0 == BitsNat(int)
        up == /\ rest # <<>>
              /\ rest[1] = 1
              /\ (h0 % 2 = 1 \/ \E i \in 2..Len(rest) : rest[i] = 1)
        h == IF up THEN h0 + 1 ELSE h0
    IN  (IF x.neg THEN <<45>> ELSE <<>>)
            \o Itoa(h \div 100) \o <<46>> \o <<48 + ((h \div 10) % 10), 48 + (h % 10)>>

----------------------------------------------------------------------------
(* nginx configuration generator *)

\* const nginx502Server = "unix:/var/lib/nginx/nginx-502-server.sock"
nginx502Server ==
    <<117, 110, 105, 120, 58, 47, 118, 97, 114, 47, 108, 105, 98, 47, 110, 103, 105,
      110, 120, 47, 110, 103, 105, 110, 120, 45, 53, 48, 50, 45, 115, 101, 114, 118,
      101, 114, 46, 115, 111, 99, 107>>

\* const invalidBackendRef = "invalid-backend-ref"
invalidBackendRef ==
    <<105, 110, 118, 97, 108, 105, 100, 45, 98, 97, 99, 107, 101, 110, 100, 45, 114,
      101, 102>>

StatusFound == 302
StatusNotFound == 404

\* every "-" becomes "_"
convertStringToSafeVariableName(s) ==
    [i \in 1..Len(s) |-> IF s[i] = 45 THEN 95 ELSE s[i]]

createInvalidBackendRefUpstream ==
    [Name |-> invalidBackendRef, Servers |-> <<[Address |-> nginx502Server]>>]

\* createUpstream without the 502 server for an upstream without endpoints
createUpstream_without502Server(up) ==
    [Name |-> up.Name,
     Servers |-> [idx \in 1..Len(up.Endpoints) |->
                     [Address |-> up.Endpoints[idx].Address \o <<58>>
                                      \o Itoa(up.Endpoints[idx].Port)]]]

createUpstream(up) ==
    IF Len(up.Endpoints) = 0
    THEN [Name |-> up.Name, Servers |-> <<[Address |-> nginx502Server]>>]
    ELSE [Name |-> up.Name,
          Servers |-> [idx \in 1..Len(up.Endpoints) |->
                          [Address |-> up.Endpoints[idx].Address \o <<58>>
                                           \o Itoa(up.Endpoints[idx].Port)]]]

\* createUpstreams without the upstream for invalid backend refs
createUpstreams_withoutInvalidBackendRef(upstreams) ==
    FoldLeft(LAMBDA ups, u : Append(ups, createUpstream(u)), <<>>, upstreams)

createUpstreams(upstreams) ==
    Append(FoldLeft(LAMBDA ups, u : Append(ups, createUpstream(u)), <<>>, upstreams),
           createInvalidBackendRefUpstream)

getSplitClientValue(b) == IF b.Valid THEN b.Name ELSE invalidBackendRef

percentOf(weight, totalWeight) ==
    LET p == Float64Div(weight * 100, totalWeight)
    IN  Float64Div(Float64Floor(Float64Mul(p, 100)), 100)

\* nil (<<>>) for a group that needs no split
createSplitClientDistributions(group) ==
    IF ~BackendGroup_NeedsSplit(group) THEN <<>>
    ELSE LET backends == group.Backends
             totalWeight == FoldLeft(LAMBDA sum, b : sum + b.Weight, 0, backends)
             loop == FoldLeft(
                        LAMBDA acc, b :
                            LET percentage == percentOf(b.Weight, totalWeight)
                            IN  [availablePercentage |->
                                    Float64Sub(acc.availablePercentage, percentage),
                                 distributions |->
                                    Append(acc.distributions,
                                           [Percent |-> FormatFloat2(percentage),
                                            Value |-> getSplitClientValue(b)])],
                        [availablePercentage |-> Float64FromNat(100),
                         distributions |-> <<>>],
                        SubSeq(backends, 1, Len(backends) - 1))
             lastBackend == backends[Len(backends)]
         IN  IF totalWeight = 0
             THEN <<[Percent |-> <<49, 48, 48>>, Value |-> invalidBackendRef]>>
             ELSE Append(loop.distributions,
                         [Percent |-> FormatFloat2(loop.availablePercentage),
                          Value |-> getSplitClientValue(lastBackend)])

createSplitClients(backendGroups) ==
    FoldLeft(LAMBDA splitClients, group :
                LET distributions == createSplitClientDistributions(group)
                IN  IF distributions = <<>> THEN splitClients
                    ELSE Append(splitClients,
                                [VariableName |->
                                    convertStringToSafeVariableName(
                                        BackendGroup_GroupName(group)),
                                 Distributions |-> distributions]),
             <<>>, backendGroups)

\* the slices Headers and QueryParams of a match are nil (<<>>) or hold a list
\* (<<list>>), which may be empty; isPathOnlyMatch compares them with nil
isPathOnlyMatch(m) == m.Method = <<>> /\ m.Headers = <<>> /\ m.QueryParams = <<>>

\* "http://" + address
createProxyPass(address) == <<104, 116, 116, 112, 58, 47, 47>> \o address

\* "http://$" + convertStringToSafeVariableName(variable)
createProxyPassForVar(variable) ==
    <<104, 116, 116, 112, 58, 47, 47, 36>> \o convertStringToSafeVariableName(variable)

zeroLocation ==
    [Return |-> <<>>, Path |-> <<>>, ProxyPass |-> <<>>, HTTPMatchVar |-> <<>>,
     Internal |-> FALSE]

createMatchLocation(path) == [zeroLocation EXCEPT !.Path = path, !.Internal = TRUE]

\* createPathForMatch counting the routes from 1
createPathForMatch_fromOne(path, routeIdx) ==
    path \o <<95, 114, 111, 117, 116, 101>> \o Itoa(routeIdx + 1)

\* fmt.Sprintf("%s_route%d", path, routeIdx)
createPathForMatch(path, routeIdx) ==
    path \o <<95, 114, 111, 117, 116, 101>> \o Itoa(routeIdx)

\* strings.ToLower on ASCII
ToLower(s) == [i \in 1..Len(s) |-> IF s[i] >= 65 /\ s[i] <= 90 THEN s[i] + 32 ELSE s[i]]

\* name + ":" + value
createHeaderKeyValString(h) == h.Name \o <<58>> \o h.Value

\* name + "=" + value
createQueryParamKeyValString(p) == p.Name \o <<61>> \o p.Value

createHTTPMatch(m, redirectPath) ==
    IF isPathOnlyMatch(m)
    THEN [Any |-> TRUE, Method |-> <<>>, Headers |-> <<>>, QueryParams |-> <<>>,
          RedirectPath |-> redirectPath]
    ELSE [Any |-> FALSE,
          Method |-> IF m.Method # <<>> THEN m.Method[1] ELSE <<>>,
          Headers |->
              FoldLeft(LAMBDA acc, h :
                          IF h.Type = "Exact" /\ ToLower(h.Name) \notin acc.headerNames
                          THEN [headers |-> Append(acc.headers, createHeaderKeyValString(h)),
                                headerNames |-> acc.headerNames \cup {ToLower(h.Name)}]
                          ELSE acc,
                       [headers |-> <<>>, headerNames |-> {}],
                       IF m.Headers # <<>> THEN m.Headers[1] ELSE <<>>).headers,
          QueryParams |->
              FoldLeft(LAMBDA params, p :
                          IF p.Type = "Exact"
                          THEN Append(params, createQueryParamKeyValString(p))
                          ELSE params,
                       <<>>, IF m.QueryParams # <<>> THEN m.QueryParams[1] ELSE <<>>),
          RedirectPath |-> redirectPath]

\* a JSON string: quotes around the text, with the quote and the backslash
\* escaped by a backslash and <, > and & written as <, > and &
jsonString(s) ==
    <<34>> \o FoldLeft(LAMBDA acc, c :
                          IF c = 34 \/ c = 92 THEN acc \o <<92, c>>
                          ELSE IF c = 60 THEN acc \o <<92, 117, 48, 48, 51, 99>>
                          ELSE IF c = 62 THEN acc \o <<92, 117, 48, 48, 51, 101>>
                          ELSE IF c = 38 THEN acc \o <<92, 117, 48, 48, 50, 54>>
                          ELSE Append(acc, c),
                       <<>>, s)
          \o <<34>>

\* a JSON array of the texts of elems
jsonArray(elems) ==
    <<91>> \o FoldLeft(LAMBDA acc, e : IF acc = <<>> THEN e ELSE acc \o <<44>> \o e,
                       <<>>, elems)
          \o <<93>>

\* json.Marshal of one httpMatch: the fields any, method, headers, params and
\* redirectPath in this order, each left out when empty
jsonHTTPMatch(hm) ==
    LET fields ==
            (IF hm.Any THEN <<<<34, 97, 110, 121, 34, 58, 116, 114, 117, 101>>>> ELSE <<>>)
            \o (IF hm.Method # <<>>
                THEN <<<<34, 109, 101, 116, 104, 111, 100, 34, 58>> \o jsonString(hm.Method)>>
                ELSE <<>>)
            \o (IF hm.Headers # <<>>
                THEN <<<<34, 104, 101, 97, 100, 101, 114, 115, 34, 58>>
                         \o jsonArray([i \in 1..Len(hm.Headers) |-> jsonString(hm.Headers[i])])>>
                ELSE <<>>)
            \o (IF hm.QueryParams # <<>>
                THEN <<<<34, 112, 97, 114, 97, 109, 115, 34, 58>>
                         \o jsonArray([i \in 1..Len(hm.QueryParams) |->
                                          jsonString(hm.QueryParams[i])])>>
                ELSE <<>>)
            \o (IF hm.RedirectPath # <<>>
                THEN <<<<34, 114, 101, 100, 105, 114, 101, 99, 116, 80, 97, 116, 104, 34, 58>>
                         \o jsonString(hm.RedirectPath)>>
                ELSE <<>>)
    IN  <<123>> \o FoldLeft(LAMBDA acc, e : IF acc = <<>> THEN e ELSE acc \o <<44>> \o e,
                            <<>>, fields)
            \o <<125>>

\* json.Marshal(matches)
jsonMarshal(matches) ==
    jsonArray([i \in 1..Len(matches) |-> jsonHTTPMatch(matches[i])])

\* createReturnValForRedirectFilter with port 80 for a filter without port,
\* whatever the listener port
createReturnValForRedirectFilter_port80(filter, listenerPort) ==
    IF filter = <<>> THEN <<>>
    ELSE LET f == filter[1]
             hostname == IF f.Hostname # <<>> THEN f.Hostname[1] ELSE <<36, 104, 111, 115, 116>>
             code == IF f.StatusCode # <<>> THEN f.StatusCode[1] ELSE StatusFound
             port == IF f.Port # <<>> THEN f.Port[1] ELSE 80
             scheme == IF f.Scheme # <<>> THEN f.Scheme[1]
                       ELSE <<36, 115, 99, 104, 101, 109, 101>>
         IN  <<[Code |-> code,
                URL |-> scheme \o <<58, 47, 47>> \o hostname \o <<58>> \o Itoa(port)
                          \o <<36, 114, 101, 113, 117, 101, 115, 116, 95, 117, 114, 105>>]>>

\* filter is the pointer r.Filters.RequestRedirect
createReturnValForRedirectFilter(filter, listenerPort) ==
    IF filter = <<>> THEN <<>>
    ELSE LET f == filter[1]
             hostname == IF f.Hostname # <<>> THEN f.Hostname[1] ELSE <<36, 104, 111, 115, 116>>
             code == IF f.StatusCode # <<>> THEN f.StatusCode[1] ELSE StatusFound
             port == IF f.Port # <<>> THEN f.Port[1] ELSE listenerPort
             scheme == IF f.Scheme # <<>> THEN f.Scheme[1]
                       ELSE <<36, 115, 99, 104, 101, 109, 101>>
         IN  <<[Code |-> code,
                URL |-> scheme \o <<58, 47, 47>> \o hostname \o <<58>> \o Itoa(port)
                          \o <<36, 114, 101, 113, 117, 101, 115, 116, 95, 117, 114, 105>>]>>

\* createLocation without the continue after the redirect: the location of
\* a redirect gets its proxy_pass as well
createLocation_proxyAfterRedirect(rs, rule, listenerPort, acc, matchRuleIdx) ==
    LET r == rule.MatchRules[matchRuleIdx + 1]
        m == GetMatch(rs, r)
        plain == Len(rule.MatchRules) = 1 /\ isPathOnlyMatch(m)
        path == createPathForMatch(rule.Path, matchRuleIdx)
        loc0 == IF plain THEN [zeroLocation EXCEPT !.Path = rule.Path]
                ELSE createMatchLocation(path)
        matches == IF plain THEN acc.matches
                   ELSE Append(acc.matches, createHTTPMatch(m, path))
        name == BackendGroup_Name(r.BackendGroup)
        backendName0 == IF name = <<>> THEN invalidBackendRef ELSE name
        loc1 == IF r.Filters.RequestRedirect # <<>>
                THEN [loc0 EXCEPT !.Return =
                         createReturnValForRedirectFilter(r.Filters.RequestRedirect,
                                                          listenerPort)]
                ELSE loc0
        loc == IF BackendGroup_NeedsSplit(r.BackendGroup)
               THEN [loc1 EXCEPT !.ProxyPass = createProxyPassForVar(backendName0)]
               ELSE [loc1 EXCEPT !.ProxyPass = createProxyPass(backendName0)]
    IN  [locs |-> Append(acc.locs, loc), matches |-> matches]

\* the body of the loop over rule.MatchRules in createServer; acc carries the
\* locs and the matches slices
createLocation(rs, rule, listenerPort, acc, matchRuleIdx) ==
    LET r == rule.MatchRules[matchRuleIdx + 1]
        m == GetMatch(rs, r)
        plain == Len(rule.MatchRules) = 1 /\ isPathOnlyMatch(m)
        path == createPathForMatch(rule.Path, matchRuleIdx)
        loc0 == IF plain THEN [zeroLocation EXCEPT !.Path = rule.Path]
                ELSE createMatchLocation(path)
        matches == IF plain THEN acc.matches
                   ELSE Append(acc.matches, createHTTPMatch(m, path))
        name == BackendGroup_Name(r.BackendGroup)
        backendName0 == IF name = <<>> THEN invalidBackendRef ELSE name
        loc == IF r.Filters.RequestRedirect # <<>>
               THEN [loc0 EXCEPT !.Return =
                        createReturnValForRedirectFilter(r.Filters.RequestRedirect,
                                                         listenerPort)]
               ELSE IF BackendGroup_NeedsSplit(r.BackendGroup)
               THEN [loc0 EXCEPT !.ProxyPass = createProxyPassForVar(backendName0)]
               ELSE [loc0 EXCEPT !.ProxyPass = createProxyPass(backendName0)]
    IN  [locs |-> Append(acc.locs, loc), matches |-> matches]

createServer(rs, virtualServer) ==
    LET ssl == IF virtualServer.SSL # <<>>
               THEN <<[Certificate |-> virtualServer.SSL[1].CertificatePath,
                       CertificateKey |-> virtualServer.SSL[1].CertificatePath]>>
               ELSE <<>>
        listenerPort == IF virtualServer.SSL # <<>> THEN 443 ELSE 80
        s == [SSL |-> ssl, ServerName |-> virtualServer.Hostname, Locations |-> <<>>,
              IsDefaultHTTP |-> FALSE, IsDefaultSSL |-> FALSE]
        forRule(locs, rule) ==
            LET done == FoldLeft(LAMBDA acc, i : createLocation(rs, rule, listenerPort, acc, i - 1),
                                 [locs |-> locs, matches |-> <<>>],
                                 [i \in 1..Len(rule.MatchRules) |-> i])
            IN  IF Len(done.matches) > 0
                THEN Append(done.locs,
                            [zeroLocation EXCEPT !.Path = rule.Path,
                                                 !.HTTPMatchVar = jsonMarshal(done.matches)])
                ELSE done.locs
    IN  IF Len(virtualServer.PathRules) = 0
        THEN [s EXCEPT !.Locations =
                <<[zeroLocation EXCEPT !.Path = <<47>>,
                                       !.Return = <<[Code |-> StatusNotFound, URL |-> <<>>]>>]>>]
        ELSE [s EXCEPT !.Locations = FoldLeft(forRule, <<>>, virtualServer.PathRules)]

zeroServer ==
    [SSL |-> <<>>, ServerName |-> <<>>, Locations |-> <<>>,
     IsDefaultHTTP |-> FALSE, IsDefaultSSL |-> FALSE]

createDefaultSSLServer == [zeroServer EXCEPT !.IsDefaultSSL = TRUE]

createDefaultHTTPServer == [zeroServer EXCEPT !.IsDefaultHTTP = TRUE]

createServers(rs, c) ==
    LET confServers == c.HTTPServers \o c.SSLServers
    IN  (IF Len(c.HTTPServers) > 0 THEN <<createDefaultHTTPServer>> ELSE <<>>)
        \o (IF Len(c.SSLServers) > 0 THEN <<createDefaultSSLServer>> ELSE <<>>)
        \o [i \in 1..Len(confServers) |-> createServer(rs, confServers[i])]

----------------------------------------------------------------------------
(* The Generator implementation GeneratorImpl; its MatchRules carry an
   UpstreamName *)

\* the body of the loop over rule.MatchRules in generateServer; acc carries
\* the locs and the matches slices
generateLocation(rs, rule, listenerPort, acc, matchRuleIdx) ==
    LET r == rule.MatchRules[matchRuleIdx + 1]
        m == GetMatch(rs, r)
        generateProxyPass(address) == <<104, 116, 116, 112, 58, 47, 47>> \o address
        generateMatchLocation(path) == [zeroLocation EXCEPT !.Path = path, !.Internal = TRUE]
        plain == Len(rule.MatchRules) = 1 /\ isPathOnlyMatch(m)
        path == createPathForMatch(rule.Path, matchRuleIdx)
        loc0 == IF plain THEN [zeroLocation EXCEPT !.Path = rule.Path]
                ELSE generateMatchLocation(path)
        locs == IF plain
                THEN Append(acc.locs,
                            [zeroLocation EXCEPT !.Path = rule.Path,
                                                 !.ProxyPass = generateProxyPass(r.UpstreamName)])
                ELSE acc.locs
        matches == IF plain THEN acc.matches
                   ELSE Append(acc.matches, createHTTPMatch(m, path))
        loc == IF r.Filters.RequestRedirect # <<>>
               THEN [loc0 EXCEPT !.Return =
                        createReturnValForRedirectFilter(r.Filters.RequestRedirect,
                                                         listenerPort)]
               ELSE [loc0 EXCEPT !.ProxyPass = generateProxyPass(r.UpstreamName)]
    IN  [locs |-> Append(locs, loc), matches |-> matches]

generateServer(rs, virtualServer) ==
    LET ssl == IF virtualServer.SSL # <<>>
               THEN <<[Certificate |-> virtualServer.SSL[1].CertificatePath,
                       CertificateKey |-> virtualServer.SSL[1].CertificatePath]>>
               ELSE <<>>
        listenerPort == IF virtualServer.SSL # <<>> THEN 443 ELSE 80
        s == [SSL |-> ssl, ServerName |-> virtualServer.Hostname, Locations |-> <<>>,
              IsDefaultHTTP |-> FALSE, IsDefaultSSL |-> FALSE]
        forRule(locs, rule) ==
            LET done == FoldLeft(LAMBDA acc, i : generateLocation(rs, rule, listenerPort, acc, i - 1),
                                 [locs |-> locs, matches |-> <<>>],
                                 [i \in 1..Len(rule.MatchRules) |-> i])
            IN  IF Len(done.matches) > 0
                THEN Append(done.locs,
                            [zeroLocation EXCEPT !.Path = rule.Path,
                                                 !.HTTPMatchVar = jsonMarshal(done.matches)])
                ELSE done.locs
    IN  IF Len(virtualServer.PathRules) = 0
        THEN [s EXCEPT !.Locations =
                <<[zeroLocation EXCEPT !.Path = <<47>>,
                                       !.Return = <<[Code |-> StatusNotFound, URL |-> <<>>]>>]>>]
        ELSE [s EXCEPT !.Locations = FoldLeft(forRule, <<>>, virtualServer.PathRules)]

----------------------------------------------------------------------------
(* The graphs a cycle starts from *)

MaxWeight == 2
MaxTimestamp == 1

ListenerNames == {"l1", "l2"}

Hr1 == <<104, 114, 49>>                               \* HTTPRoute "hr1"
Hr2 == <<104, 114, 50>>                               \* HTTPRoute "hr2"

\* the secret path of a valid HTTPS listener: "/" and the listener's number
secretPathOf(lname) == IF lname = "l1" THEN <<47, 49>> ELSE <<47, 50>>

listenerSource(lname, protocol, hostname, valid) ==
    [Protocol |-> protocol,
     Hostname |-> hostname,
     Valid |-> valid,
     SecretPath |-> IF protocol = "HTTPS" /\ valid THEN secretPathOf(lname) ELSE <<>>,
     Routes |-> {},
     AcceptedHostnames |-> {}]

\* listeners of one Gateway: l1 always, l2 sometimes; two listeners with the
\* same port (one per protocol) and the same hostname conflict and are both
\* invalid
ListenerTables ==
    LET one(lname) == {listenerSource(lname, p, h, v) :
                          p \in {"HTTP", "HTTPS"}, h \in {<<>>, <<Foo>>}, v \in BOOLEAN}
        conflict(a, b) == a.Protocol = b.Protocol /\ a.Hostname = b.Hostname
    IN  {[n \in {"l1"} |-> a] : a \in one("l1")}
        \cup {[n \in ListenerNames |-> IF n = "l1" THEN ab[1] ELSE ab[2]] :
                ab \in {x \in one("l1") \X one("l2") :
                           conflict(x[1], x[2]) => ~x[1].Valid /\ ~x[2].Valid}}

backendRef(name, weight) ==
    [Kind |-> <<>>, Namespace |-> <<>>, Name |-> name, Port |-> <<80>>, Weight |-> weight]

\* backendRefs lists of a rule: none, one (good, without endpoints, failing to
\* resolve, missing, of another kind, of another namespace, without port,
\* with weight 0) and two with every pair of weights
RefLists ==
    {<<>>,
     <<backendRef(Svc1, <<>>)>>,
     <<[backendRef(Svc2, <<>>) EXCEPT !.Kind = <<"Service">>, !.Namespace = <<TestNs>>]>>,
     <<backendRef(Svc3, <<1>>)>>,
     <<backendRef(SvcDne, <<1>>)>>,
     <<[backendRef(Svc1, <<1>>) EXCEPT !.Kind = <<"Pod">>]>>,
     <<[backendRef(Svc1, <<1>>) EXCEPT !.Namespace = <<OtherNs>>]>>,
     <<[backendRef(Svc1, <<1>>) EXCEPT !.Port = <<>>]>>,
     <<backendRef(Svc1, <<0>>)>>}
    \cup {<<backendRef(Svc1, <<w1>>), backendRef(n2, <<w2>>)>> :
            w1 \in 0..MaxWeight, w2 \in 0..MaxWeight, n2 \in {Svc2, SvcDne}}

match(path, method) ==
    [Path |-> path, Method |-> method, Headers |-> <<>>, QueryParams |-> <<>>]

\* matches lists of a rule: "/", /a with the method GET, an unset path next
\* to /a, and /a with a headers list that is empty but not nil
MatchLists ==
    {<<match(<<PathRoot>>, <<>>)>>,
     <<match(<<PathA>>, <<<<71, 69, 84>>>>)>>,
     <<match(<<>>, <<>>), match(<<PathA>>, <<>>)>>,
     <<[match(<<PathA>>, <<>>) EXCEPT !.Headers = <<<<>>>>]>>}

redirectFilter ==
    [Type |-> "RequestRedirect",
     RequestRedirect |-> <<[Hostname |-> <<Foo>>, Port |-> <<>>,
                            StatusCode |-> <<>>, Scheme |-> <<>>]>>]

\* a redirect with every field unset
redirectFilterUnset ==
    [Type |-> "RequestRedirect",
     RequestRedirect |-> <<[Hostname |-> <<>>, Port |-> <<>>,
                            StatusCode |-> <<>>, Scheme |-> <<>>]>>]

\* a redirect with every field set: https, port 2022, status 101
redirectFilterSet ==
    [Type |-> "RequestRedirect",
     RequestRedirect |-> <<[Hostname |-> <<Foo>>, Port |-> <<2022>>,
                            StatusCode |-> <<101>>,
                            Scheme |-> <<<<104, 116, 116, 112, 115>>>>]>>]

FilterLists == {<<>>, <<redirectFilter>>, <<redirectFilterUnset>>, <<redirectFilterSet>>}

rule(matches, filters, refs) ==
    [Matches |-> matches, Filters |-> filters, BackendRefs |-> refs]

splitRefs == <<backendRef(Svc1, <<2>>), backendRef(Svc2, <<1>>)>>

twoRules ==
    <<rule(<<match(<<PathRoot>>, <<>>)>>, <<>>, splitRefs),
      rule(<<match(<<>>, <<>>), match(<<PathA>>, <<>>)>>, <<>>, <<backendRef(Svc1, <<>>)>>)>>

httpRoute(name, ts, hostnames, parentRefs, rules) ==
    [Namespace |-> TestNs, Name |-> name, CreationTimestamp |-> ts,
     Hostnames |-> hostnames, ParentRefs |-> parentRefs, Rules |-> rules,
     BackendRefs |-> newBackendRefs]

\* the second route: one rule on "/" to a missing Service, or the two rules
\* of the first
SecondRoutes ==
    {httpRoute(Hr2, ts, <<Foo>>, {ln}, rs) :
        ts \in 0..MaxTimestamp, ln \in ListenerNames,
        rs \in {<<rule(<<match(<<PathRoot>>, <<>>)>>, <<>>, <<backendRef(SvcDne, <<>>)>>)>>,
                twoRules}}

\* routes that vary in how they attach (hostnames, parentRefs), with or
\* without a second route
AttachRouteTables ==
    LET first == {httpRoute(Hr1, MaxTimestamp, hs, prs, twoRules) :
                    hs \in {<<Foo>>, <<Bar, Foo>>, <<>>},
                    prs \in (SUBSET ListenerNames) \ {{}}}
    IN  {[id \in {"r1"} |-> a] : a \in first}
        \cup {[id \in {"r1", "r2"} |-> IF id = "r1" THEN a ELSE b] :
                a \in first, b \in SecondRoutes}

\* routes that vary in their rules, attached to l1
RuleRouteTables ==
    {[id \in {"r1"} |-> httpRoute(Hr1, 0, <<Foo>>, {"l1"}, <<rule(m, f, b)>>)] :
        m \in MatchLists, f \in FilterLists, b \in RefLists}

\* accepted hostnames of a route on a listener: the listener's hostname (or the
\* wildcard) for a route without hostnames, every route hostname for a
\* listener without hostname, else the route hostnames equal to the listener's
acceptedHostnames(l, r) ==
    IF r.Hostnames = <<>> THEN {getListenerHostname(l.Hostname)}
    ELSE IF l.Hostname = <<>> THEN Range(r.Hostnames)
    ELSE Range(r.Hostnames) \cap {l.Hostname[1]}

\* route binding: a route is attached to each listener its parentRefs name
\* that accepts one of its hostnames
bindRoutes(ls, rs) ==
    [n \in DOMAIN ls |->
        LET bound == {id \in DOMAIN rs :
                        n \in rs[id].ParentRefs /\ acceptedHostnames(ls[n], rs[id]) # {}}
        IN  [ls[n] EXCEPT !.Routes = bound,
                          !.AcceptedHostnames =
                              UNION {acceptedHostnames(ls[n], rs[id]) : id \in bound}]]

----------------------------------------------------------------------------
(* The reconciliation cycle *)

\* the graphs whose cycle is also run with a cancelled ctx: one route with one
\* rule on "/" without filters
CancellableRoutes(rs) ==
    /\ DOMAIN rs = {"r1"}
    /\ Len(rs["r1"].Rules) = 1
    /\ rs["r1"].Rules[1].Filters = <<>>
    /\ rs["r1"].Rules[1].Matches = <<match(<<PathRoot>>, <<>>)>>

Init ==
    /\ \/ /\ gatewayClass = "valid"
          /\ gatewayPresent = TRUE
          /\ \/ \E ls \in ListenerTables, rs \in AttachRouteTables :
                    /\ routes = rs
                    /\ listeners = bindRoutes(ls, rs)
             \/ \E ls \in {t \in ListenerTables : t["l1"].Valid /\ t["l1"].Hostname = <<>>
                                                  /\ DOMAIN t = {"l1"}},
                   rs \in RuleRouteTables :
                    /\ routes = rs
                    /\ listeners = bindRoutes(ls, rs)
       \/ /\ gatewayClass \in {"nil", "invalid", "valid"}
          /\ gatewayPresent \in BOOLEAN
          /\ gatewayClass = "valid" => ~gatewayPresent
          /\ \E ls \in {t \in ListenerTables : DOMAIN t = {"l1"}},
                rs \in {t \in AttachRouteTables : DOMAIN t = {"r1"}
                                                  /\ t["r1"].Hostnames = <<Foo>>} :
                /\ routes = rs
                /\ listeners = IF gatewayPresent THEN bindRoutes(ls, rs) ELSE <<>>
    /\ context \in IF gatewayClass = "valid" /\ gatewayPresent /\ CancellableRoutes(routes)
                   THEN {"live", "cancelled"}
                   ELSE {"live"}
    /\ pc = "start"
    /\ conf = emptyConfiguration
    /\ nginx = <<>>
    /\ call = <<>>

\* resolveBackendRefs
ResolveBackendRefs ==
    /\ pc = "start"
    /\ routes' = resolveBackendRefsForRoutes(context, routes, Services)
    /\ pc' = "resolved"
    /\ UNCHANGED <<context, gatewayClass, gatewayPresent, listeners, conf, nginx, call>>

\* buildConfiguration, for the first time in the cycle or once more on the
\* same graph
BuildConfiguration ==
    /\ pc \in {"resolved", "built"}
    /\ \E out \in buildConfiguration(gatewayClass, gatewayPresent, listeners, routes) :
            /\ pc' = IF out.panic THEN "panic" ELSE "built"
            /\ conf' = IF out.panic THEN conf ELSE out.conf
    /\ UNCHANGED <<context, gatewayClass, gatewayPresent, listeners, routes, nginx, call>>

\* the generator: executeUpstreams, executeServers and executeSplitClients on
\* the Configuration of the cycle
Generate ==
    /\ pc = "built"
    /\ nginx' = [Upstreams |-> createUpstreams(conf.Upstreams),
                 Servers |-> createServers(routes, conf),
                 SplitClients |-> createSplitClients(conf.BackendGroups)]
    /\ pc' = "generated"
    /\ UNCHANGED <<context, gatewayClass, gatewayPresent, listeners, routes, conf, call>>

Next == ResolveBackendRefs \/ BuildConfiguration \/ Generate

Spec == Init /\ [][Next]_vars

----------------------------------------------------------------------------
(* createSplitClients on its own: the Configurations of one route with one  *)
(* rule, over the weights of the rule's backends                            *)

MaxBackends == 3

\* weights with quotients that end in the binary floating point below the
\* decimal they stand for (23 of 125 is 18.4 percent) and weights without
SplitWeights == {0, 1, 23, 42, 83, 102}

\* the i-th backend of the rule as the resolver leaves it: the name of Service
\* s<i> on port 80, or no name for an invalid ref
splitBackend(i, weight, valid) ==
    [Name |-> IF valid
              THEN backendName([Namespace |-> TestNs, Name |-> <<115, 48 + i>>], 80)
              ELSE <<>>,
     Valid |-> valid,
     Weight |-> weight]

\* groups of 0..MaxBackends backends; the first backend is valid or not
SplitGroups ==
    UNION {{[Source |-> [Namespace |-> TestNs, Name |-> Hr1],
             RuleIdx |-> 0,
             Backends |-> [i \in 1..n |-> splitBackend(i, ws[i], i > 1 \/ v)]] :
                ws \in [1..n -> SplitWeights], v \in BOOLEAN} :
           n \in 0..MaxBackends}

\* the Configuration of a group: its valid backends as upstreams
splitConfiguration(g) ==
    [emptyConfiguration EXCEPT
        !.Upstreams = [i \in 1..Len(SelectSeq(g.Backends, LAMBDA b : b.Valid)) |->
                          [Name |-> SelectSeq(g.Backends, LAMBDA b : b.Valid)[i].Name,
                           Endpoints |-> <<>>]],
        !.BackendGroups = <<g>>]

InitSplit ==
    /\ context = "live"
    /\ gatewayClass = "valid"
    /\ gatewayPresent = TRUE
    /\ listeners = <<>>
    /\ routes = <<>>
    /\ pc = "built"
    /\ \E g \in SplitGroups : conf = splitConfiguration(g)
    /\ nginx = <<>>
    /\ call = <<>>

NextSplit == Generate

SpecSplit == InitSplit /\ [][NextSplit]_vars

----------------------------------------------------------------------------
(* createUpstreams on its own: Configurations whose Upstreams are lists of   *)
(* upstreams with no, one or several endpoints                              *)

MaxUpstreams == 2
MaxEndpoints == 2

\* resolver.Endpoint values: 10.0.0.1:80 and 10.0.0.2:8080
UpstreamEndpoints ==
    {[Address |-> <<49, 48, 46, 48, 46, 48, 46, 49>>, Port |-> 80],
     [Address |-> <<49, 48, 46, 48, 46, 48, 46, 50>>, Port |-> 8080]}

\* state.Upstream values named up1 or up2, with 0..MaxEndpoints endpoints
UpstreamValues ==
    UNION {{[Name |-> <<117, 112, 48 + i>>, Endpoints |-> eps] :
                i \in 1..2, eps \in [1..n -> UpstreamEndpoints]} :
           n \in 0..MaxEndpoints}

UpstreamLists == UNION {[1..n -> UpstreamValues] : n \in 0..MaxUpstreams}

InitUpstreams ==
    /\ context = "live"
    /\ gatewayClass = "valid"
    /\ gatewayPresent = TRUE
    /\ listeners = <<>>
    /\ routes = <<>>
    /\ pc = "built"
    /\ \E ups \in UpstreamLists : conf = [emptyConfiguration EXCEPT !.Upstreams = ups]
    /\ nginx = <<>>
    /\ call = <<>>

NextUpstreams == Generate

SpecUpstreams == InitUpstreams /\ [][NextUpstreams]_vars

----------------------------------------------------------------------------
(* Functions called on their own: call holds the function, its arguments   *)
(* and, once it returned, its results                                      *)

\* the kinds, namespaces and ports of a backendRef: unset, the accepted
\* value, another value and, for the strings, the empty string
RefKinds == {<<>>, <<"Service">>, <<"NotService">>, <<"">>}
RefNamespaces == {<<>>, <<TestNs>>, <<OtherNs>>, <<<<>>>>}
RefPorts == {<<>>, <<80>>, <<8080>>}

\* v1beta1.BackendRef values
BackendRefValues ==
    {[Kind |-> k, Namespace |-> ns, Name |-> n, Port |-> p, Weight |-> <<>>] :
        k \in RefKinds, ns \in RefNamespaces, n \in {Svc1, SvcDne}, p \in RefPorts}

\* the calls of validateBackendRef and getServiceAndPortFromRef
RefCalls ==
    {[op |-> o, in |-> [ref |-> ref, routeNs |-> ns], out |-> <<>>] :
        o \in {"validateBackendRef", "getServiceAndPortFromRef"},
        ref \in BackendRefValues, ns \in {TestNs, OtherNs}}

MaxFilters == 3

\* a redirect to the hostname bar
redirectFilterBar ==
    [Type |-> "RequestRedirect",
     RequestRedirect |-> <<[Hostname |-> <<Bar>>, Port |-> <<>>,
                            StatusCode |-> <<>>, Scheme |-> <<>>]>>]

\* v1beta1.HTTPRouteFilter values: redirects to foo and to bar, a filter of
\* the redirect type without its RequestRedirect field, and filters of
\* another type, one of them with a RequestRedirect field all the same
FilterValues ==
    {redirectFilter, redirectFilterBar,
     [Type |-> "RequestRedirect", RequestRedirect |-> <<>>],
     [Type |-> "RequestHeaderModifier", RequestRedirect |-> <<>>],
     [Type |-> "RequestHeaderModifier", RequestRedirect |-> redirectFilterBar.RequestRedirect]}

\* the calls of createFilters
FilterCalls ==
    {[op |-> "createFilters", in |-> fs, out |-> <<>>] :
        fs \in UNION {[1..n -> FilterValues] : n \in 0..MaxFilters}}

MaxFieldIndexes == 2

\* the keys of cfg.fieldIndexes are taken from these fields
FieldNames == 1..MaxFieldIndexes

\* what builder.Complete does with the manager: it adds the controller and
\* succeeds, it adds the controller and mgr.Add returns an error, or it
\* fails before it adds the controller
BuildOutcomes == {"added", "addFails", "failsBeforeAdd"}

\* the calls of registerController: the configured field indexes, the fields
\* for which indexer.IndexField returns an error, and the outcome of
\* builder.Complete; log is the sequence of calls made on the fakes
RegisterCalls ==
    {[op |-> "registerController",
      in |-> [fieldIndexes |-> fs, indexFieldFails |-> ff, complete |-> b],
      out |-> <<>>, log |-> <<>>] :
        fs \in SUBSET FieldNames, ff \in SUBSET FieldNames, b \in BuildOutcomes}

MaxConditions == 2

\* v1beta1.HTTPHeaderMatch values: v:1, V:2 and w:1 of type Exact, v:2 and
\* w:2 of type RegularExpression
HeaderMatchValues ==
    {[Type |-> "Exact", Name |-> <<118>>, Value |-> <<49>>],
     [Type |-> "Exact", Name |-> <<86>>, Value |-> <<50>>],
     [Type |-> "Exact", Name |-> <<119>>, Value |-> <<49>>],
     [Type |-> "RegularExpression", Name |-> <<118>>, Value |-> <<50>>],
     [Type |-> "RegularExpression", Name |-> <<119>>, Value |-> <<50>>]}

\* v1beta1.HTTPQueryParamMatch values: v=1 and V=1 of type Exact, v=1 of type
\* RegularExpression
QueryParamMatchValues ==
    {[Type |-> "Exact", Name |-> <<118>>, Value |-> <<49>>],
     [Type |-> "Exact", Name |-> <<86>>, Value |-> <<49>>],
     [Type |-> "RegularExpression", Name |-> <<118>>, Value |-> <<49>>]}

\* the calls of createHTTPMatch: the method unset or GET, the slices Headers
\* and QueryParams nil or with up to MaxConditions entries
HTTPMatchCalls ==
    {[op |-> "createHTTPMatch",
      in |-> [match |-> [Path |-> <<PathA>>, Method |-> m, Headers |-> hs,
                         QueryParams |-> ps],
              redirectPath |-> createPathForMatch(PathA, 0)],
      out |-> <<>>] :
        m \in {<<>>, <<<<71, 69, 84>>>>},
        hs \in {<<>>} \cup {<<l>> : l \in UNION {[1..n -> HeaderMatchValues] : n \in 0..MaxConditions}},
        ps \in {<<>>} \cup {<<l>> : l \in UNION {[1..n -> QueryParamMatchValues] : n \in 0..MaxConditions}}}

\* the PathRules of the rules of one route, for the paths of the list paths:
\* each match of each rule is a MatchRule of the PathRule of its path;
\* backend is the MatchRule's UpstreamName or BackendGroup field
pathRulesOfRules(id, rules, paths, backend) ==
    LET pairs == FoldLeft(LAMBDA acc, i :
                             acc \o [j \in 1..Len(rules[i].Matches) |-> <<i - 1, j - 1>>],
                          <<>>, [i \in 1..Len(rules) |-> i])
        pathOf(ij) == getPath(rules[ij[1] + 1].Matches[ij[2] + 1].Path)
        matchRule(ij) ==
            [MatchIdx |-> ij[2], RuleIdx |-> ij[1], Source |-> id,
             Filters |-> createFilters(rules[ij[1] + 1].Filters)] @@ backend
        pathRule(path) ==
            LET at == SelectSeq(pairs, LAMBDA ij : pathOf(ij) = path)
            IN  [Path |-> path, MatchRules |-> [k \in 1..Len(at) |-> matchRule(at[k])]]
    IN  SelectSeq([k \in DOMAIN paths |-> pathRule(paths[k])],
                  LAMBDA pathRule_ : pathRule_.MatchRules # <<>>)

\* the calls of generateServer: a virtual server for foo, with or without
\* SSL, whose PathRules come from one route with one or two rules
GenerateServerCalls ==
    {[op |-> "generateServer",
      in |-> [routes |-> [id \in {"r1"} |-> httpRoute(Hr1, 0, <<Foo>>, {"l1"}, rules)],
              server |-> [Hostname |-> Foo, SSL |-> ssl,
                          PathRules |-> pathRulesOfRules("r1", rules, <<PathRoot, PathA>>,
                                                        [UpstreamName |-> Svc1])]],
      out |-> <<>>] :
        ssl \in {<<>>, <<[CertificatePath |-> Foo]>>},
        rules \in {<<>>}
                 \cup {<<rule(m, f, <<>>)>> : m \in MatchLists, f \in FilterLists}
                 \cup {<<rule(m, f, <<>>), rule(m2, <<>>, <<>>)>> :
                            m \in MatchLists, f \in FilterLists, m2 \in MatchLists}}

MaxMatches == 2

\* the path /a_route0
PathARoute0 == createPathForMatch(PathA, 0)

\* the calls of createServer: a virtual server for foo whose PathRules come
\* from one route with one rule of up to MaxMatches matches, on /a with or
\* without the method GET and on /a_route0
CreateServerCalls ==
    {[op |-> "createServer",
      in |-> [routes |-> [id \in {"r1"} |-> httpRoute(Hr1, 0, <<Foo>>, {"l1"},
                                                      <<rule(ms, <<>>, <<>>)>>)],
              server |-> [Hostname |-> Foo, SSL |-> <<>>,
                          PathRules |-> pathRulesOfRules("r1", <<rule(ms, <<>>, <<>>)>>,
                                                        <<PathA, PathARoute0>>,
                                                        [BackendGroup |-> zeroBackendGroup])]],
      out |-> <<>>] :
        ms \in UNION {[1..n -> {match(<<PathA>>, <<>>), match(<<PathA>>, <<<<71, 69, 84>>>>),
                               match(<<PathARoute0>>, <<>>)}] : n \in 1..MaxMatches}}

\* backend groups of two backends of weight 1 each, of rule 0 or 1 of a
\* route whose namespace is a-b or a and whose name is c or b-c
NamedSplitGroups ==
    {[Source |-> [Namespace |-> ns, Name |-> n],
      RuleIdx |-> idx,
      Backends |-> <<splitBackend(1, 1, TRUE), splitBackend(2, 1, TRUE)>>] :
        ns \in {<<97, 45, 98>>, <<97>>}, n \in {<<99>>, <<98, 45, 99>>}, idx \in {0, 1}}

\* the calls of createSplitClients: two different backend groups
CreateSplitClientsCalls ==
    {[op |-> "createSplitClients", in |-> gs, out |-> <<>>] :
        gs \in {pair \in NamedSplitGroups \X NamedSplitGroups : pair[1] # pair[2]}}

MaxUpserts == 2

\* a hostPathRules and the listeners upserted into it: two HTTP listeners
\* with any routes of r1 and r2 and any accepted hostnames of foo and bar;
\* r1 is for foo, for bar and foo or without hostnames, r2 is for bar
UpsertCalls ==
    {[op |-> "upsertListener",
      in |-> [listeners |->
                [n \in ListenerNames |->
                    [listenerSource(n, "HTTP", <<>>, TRUE) EXCEPT
                        !.Routes = IF n = "l1" THEN rts[1] ELSE rts[2],
                        !.AcceptedHostnames = IF n = "l1" THEN acc[1] ELSE acc[2]]],
              routes |->
                [id \in {"r1", "r2"} |->
                    IF id = "r1"
                    THEN httpRoute(Hr1, 0, hs, ListenerNames,
                                   <<rule(<<match(<<PathRoot>>, <<>>)>>, <<>>, <<>>)>>)
                    ELSE httpRoute(Hr2, 0, <<Bar>>, ListenerNames,
                                   <<rule(<<match(<<PathA>>, <<>>)>>, <<>>, <<>>)>>)]],
      out |-> <<>>, hpr |-> newHostPathRules, upserts |-> 0] :
        rts \in (SUBSET {"r1", "r2"}) \X (SUBSET {"r1", "r2"}),
        acc \in (SUBSET {Foo, Bar}) \X (SUBSET {Foo, Bar}),
        hs \in {<<Foo>>, <<Bar, Foo>>, <<>>}}

CallInputs ==
    RefCalls \cup FilterCalls \cup RegisterCalls \cup HTTPMatchCalls \cup GenerateServerCalls
        \cup CreateServerCalls \cup CreateSplitClientsCalls \cup UpsertCalls

InitCalls ==
    /\ context = "live"
    /\ gatewayClass = "valid"
    /\ gatewayPresent = TRUE
    /\ listeners = <<>>
    /\ routes = <<>>
    /\ pc = "call"
    /\ conf = emptyConfiguration
    /\ nginx = <<>>
    /\ call \in CallInputs

\* the call returns with out
Returns(op, out) ==
    /\ pc = "call"
    /\ call.op = op
    /\ call' = [call EXCEPT !.out = out]
    /\ pc' = "returned"
    /\ UNCHANGED <<context, gatewayClass, gatewayPresent, listeners, routes, conf, nginx>>

CallValidateBackendRef ==
    Returns("validateBackendRef", [err |-> validateBackendRef(call.in.ref, call.in.routeNs)])

CallGetServiceAndPortFromRef ==
    Returns("getServiceAndPortFromRef",
           getServiceAndPortFromRef(call.in.ref, call.in.routeNs, Services))

CallCreateFilters == Returns("createFilters", createFilters(call.in))

\* errors are chains of messages, the wrapped error last; nil is <<>>
testError == <<"test error">>

\* fmt.Errorf("...: %w", err)
wrapError(msg, err) == <<msg>> \o err

\* errors.Is(err, target)
errorsIs(err, target) ==
    \E i \in 1..Len(err) : SubSeq(err, i, Len(err)) = target

\* the result of indexer.IndexField on the fake for one field
IndexField(c, field) == IF field \in c.in.indexFieldFails THEN testError ELSE <<>>

addIndex(c, field) ==
    LET err == IndexField(c, field)
    IN  IF err # <<>> THEN wrapError("failed to add index for field", err) ELSE <<>>

\* the fields the range over cfg.fieldIndexes has visited
indexedFields(c) == {c.log[i][2] : i \in {j \in DOMAIN c.log : c.log[j][1] = "IndexField"}}

\* the iteration over cfg.fieldIndexes carrying on after a failed addIndex
registerIndex_ignoringError(c, field) ==
    [call |-> [c EXCEPT !.log = Append(@, <<"IndexField", field>>)], pc |-> "call"]

\* one iteration of the range over cfg.fieldIndexes in registerController
registerIndex(c, field) ==
    LET err == addIndex(c, field)
        called == [c EXCEPT !.log = Append(@, <<"IndexField", field>>)]
    IN  IF err # <<>>
        THEN [call |-> [called EXCEPT !.out =
                            [err |-> wrapError("failed to add index when registering a controller", err)]],
              pc |-> "returned"]
        ELSE [call |-> called, pc |-> "call"]

\* builder.Complete(newReconciler(recCfg)) on the fake manager
builderComplete(c) ==
    CASE c.in.complete = "added" -> [log |-> <<<<"Add">>>>, err |-> <<>>]
      [] c.in.complete = "addFails" -> [log |-> <<<<"Add">>>>, err |-> testError]
      [] c.in.complete = "failsBeforeAdd" -> [log |-> <<>>, err |-> testError]

\* registerController after the range over cfg.fieldIndexes
registerBuild(c) ==
    LET built == builderComplete(c)
        called == [c EXCEPT !.log = @ \o built.log]
    IN  IF built.err # <<>>
        THEN [called EXCEPT !.out = [err |-> wrapError("cannot build a controller", built.err)]]
        ELSE [called EXCEPT !.out = [err |-> <<>>]]

\* the range over the map cfg.fieldIndexes visits each key once, in an
\* order the language leaves open
RegisterAddIndex ==
    /\ pc = "call"
    /\ call.op = "registerController"
    /\ \E field \in call.in.fieldIndexes \ indexedFields(call) :
            LET next == registerIndex(call, field)
            IN  call' = next.call /\ pc' = next.pc
    /\ UNCHANGED <<context, gatewayClass, gatewayPresent, listeners, routes, conf, nginx>>

RegisterBuild ==
    /\ pc = "call"
    /\ call.op = "registerController"
    /\ call.in.fieldIndexes \ indexedFields(call) = {}
    /\ call' = registerBuild(call)
    /\ pc' = "returned"
    /\ UNCHANGED <<context, gatewayClass, gatewayPresent, listeners, routes, conf, nginx>>

CallCreateHTTPMatch ==
    Returns("createHTTPMatch", createHTTPMatch(call.in.match, call.in.redirectPath))

CallGenerateServer ==
    Returns("generateServer", generateServer(call.in.routes, call.in.server))

CallCreateServer ==
    Returns("createServer", createServer(call.in.routes, call.in.server))

CallCreateSplitClients == Returns("createSplitClients", createSplitClients(call.in))

\* one more hpr.upsertListener(l), for any listener
CallUpsertListener ==
    /\ pc = "call"
    /\ call.op = "upsertListener"
    /\ call.upserts < MaxUpserts
    /\ \E lname \in DOMAIN call.in.listeners :
        \E hpr \in upsertListener(call.hpr, call.in.listeners, call.in.routes, lname) :
            call' = [call EXCEPT !.hpr = hpr, !.upserts = @ + 1]
    /\ UNCHANGED <<context, gatewayClass, gatewayPresent, listeners, routes, pc, conf, nginx>>

\* hpr.buildServers() after the upserts
CallHostPathRulesBuildServers ==
    /\ pc = "call"
    /\ call.op = "upsertListener"
    /\ \E built \in hostPathRules_buildServers(call.hpr, call.in.listeners, call.in.routes) :
            call' = [call EXCEPT !.out = built]
    /\ pc' = "returned"
    /\ UNCHANGED <<context, gatewayClass, gatewayPresent, listeners, routes, conf, nginx>>

NextCalls ==
    \/ CallValidateBackendRef
    \/ CallGetServiceAndPortFromRef
    \/ CallCreateFilters
    \/ CallUpsertListener
    \/ CallHostPathRulesBuildServers
    \/ CallCreateSplitClients
    \/ CallCreateServer
    \/ CallGenerateServer
    \/ CallCreateHTTPMatch
    \/ RegisterAddIndex
    \/ RegisterBuild

SpecCalls == InitCalls /\ [][NextCalls]_vars

----------------------------------------------------------------------------
(* Properties of the Configuration *)

Built == pc = "built" /\ gatewayClass = "valid" /\ gatewayPresent

Buckets == {conf.HTTPServers, conf.SSLServers}

\* the routes attached to some valid listener
AttachedRoutes == UNION {listeners[n].Routes : n \in {x \in DOMAIN listeners : listeners[x].Valid}}

\* C1: in every Configuration buildConfiguration returns, two VirtualServers of
\* the same bucket (HTTPServers, SSLServers) have different Hostnames.
C1_DistinctHostnames ==
    pc = "built" =>
        \A servers \in Buckets :
            \A i, j \in DOMAIN servers :
                i # j => servers[i].Hostname # servers[j].Hostname

\* C2: buildConfiguration is a function of the graph: building once more on
\* the same graph, whatever the order of the map iterations, returns the
\* Configuration the first build returned.
C2_Deterministic ==
    [][pc = "built" /\ pc' = "built" => conf' = conf]_vars

\* the locations of all generated servers
Locations ==
    UNION {Range(nginx.Servers[i].Locations) : i \in DOMAIN nginx.Servers}

\* the upstreams locations proxy to by name: what follows "http://" in a
\* proxy_pass, unless it is a variable ($...)
ProxiedUpstreams ==
    {SubSeq(l.ProxyPass, 8, Len(l.ProxyPass)) :
        l \in {x \in Locations : /\ x.ProxyPass # <<>>
                                 /\ ~(Len(x.ProxyPass) >= 8 /\ x.ProxyPass[8] = 36)}}

\* the Values of all split-client distributions
SplitValues ==
    UNION {{nginx.SplitClients[i].Distributions[k].Value :
                k \in DOMAIN nginx.SplitClients[i].Distributions} :
           i \in DOMAIN nginx.SplitClients}

UpstreamNames == {nginx.Upstreams[i].Name : i \in DOMAIN nginx.Upstreams}

\* C3: no dangling backend references: every upstream name createServer puts
\* in a proxy_pass and every Value of a split-client distribution is the Name
\* of an upstream createUpstreams generated (invalid-backend-ref included).
C3_NoDanglingBackendRefs ==
    pc = "generated" =>
        /\ ProxiedUpstreams \subseteq UpstreamNames
        /\ SplitValues \subseteq UpstreamNames

\* a generated configuration with a location proxying to invalid-backend-ref,
\* a location proxying to the upstream of a Service, and a split
C3_Witness ==
    /\ pc = "generated"
    /\ invalidBackendRef \in ProxiedUpstreams
    /\ \E name \in ProxiedUpstreams : name # invalidBackendRef
    /\ \E name \in SplitValues : name # invalidBackendRef

\* the number a decimal numeral stands for
RECURSIVE Atoi(_)
Atoi(s) ==
    IF s = <<>> THEN 0 ELSE 10 * Atoi(SubSeq(s, 1, Len(s) - 1)) + (s[Len(s)] - 48)

\* a Percent text read as fixed-point hundredths: "100" is 10000, "18.39" is
\* 1839
Hundredths(text) ==
    LET neg == text # <<>> /\ text[1] = 45
        t == IF neg THEN Tail(text) ELSE text
        dots == {i \in DOMAIN t : t[i] = 46}
        v == IF dots = {} THEN 100 * Atoi(t)
             ELSE 100 * Atoi(SubSeq(t, 1, MinOf(dots) - 1))
                      + Atoi(SubSeq(t, MinOf(dots) + 1, Len(t)))
    IN  IF neg THEN 0 - v ELSE v

totalWeightOf(g) == FoldLeft(LAMBDA sum, b : sum + b.Weight, 0, g.Backends)

\* floor(weight * 10000 / totalWeight) of the backend at position i
flooredHundredths(g, i) == (g.Backends[i].Weight * 10000) \div totalWeightOf(g)

\* C4: createSplitClientDistributions in fixed-point hundredths: no
\* distribution for a group of fewer than 2 backends; the single entry
\* (100, invalid-backend-ref) for total weight 0; else one entry per backend
\* in order, floor(weight * 10000 / totalWeight) for every backend but the
\* last and 10000 minus the sum of the others for the last.
C4_FixedPointDistributions ==
    pc = "generated" =>
        LET groups == SelectSeq(conf.BackendGroups, LAMBDA g : Len(g.Backends) >= 2)
        IN  /\ Len(nginx.SplitClients) = Len(groups)
            /\ \A k \in DOMAIN groups :
                  LET g == groups[k]
                      d == nginx.SplitClients[k].Distributions
                      n == Len(g.Backends)
                      others == FoldLeft(LAMBDA sum, i : sum + flooredHundredths(g, i),
                                         0, [i \in 1..(n - 1) |-> i])
                  IN  IF totalWeightOf(g) = 0
                      THEN /\ Len(d) = 1
                           /\ Hundredths(d[1].Percent) = 10000
                           /\ d[1].Value = invalidBackendRef
                      ELSE /\ Len(d) = n
                           /\ \A i \in 1..(n - 1) :
                                 Hundredths(d[i].Percent) = flooredHundredths(g, i)
                           /\ Hundredths(d[n].Percent) = 10000 - others

\* the upstream name <namespace>_<service>_<port> of a backendRef of a route
upstreamNameOf(r, ref) ==
    r.Namespace \o Underscore \o ref.Name \o Underscore \o Itoa(ref.Port[1])

passesValidation(r, ref) ==
    /\ ref.Kind = <<>> \/ ref.Kind = <<"Service">>
    /\ ref.Namespace = <<>> \/ ref.Namespace = <<r.Namespace>>
    /\ ref.Port # <<>>

serviceExists(r, ref) ==
    [Namespace |-> r.Namespace, Name |-> ref.Name] \in DOMAIN Services

hasUpstream(name) == \E i \in DOMAIN conf.Upstreams : conf.Upstreams[i].Name = name

\* C5 as stated: every backendRef of a route attached to a valid listener that
\* passes reference validation has its upstream <namespace>_<service>_<port> in
\* Configuration.Upstreams, also when the Service does not exist.
C5_UpstreamForEveryValidRef ==
    Built =>
        \A id \in AttachedRoutes :
            \A i \in DOMAIN routes[id].Rules :
                \A k \in DOMAIN routes[id].Rules[i].BackendRefs :
                    LET ref == routes[id].Rules[i].BackendRefs[k]
                    IN  passesValidation(routes[id], ref)
                            => hasUpstream(upstreamNameOf(routes[id], ref))

\* C5 amended: every backendRef of a route attached to a valid listener that
\* passes reference validation and names a Service of the services map has
\* its upstream in Configuration.Upstreams, also when the resolver returns an
\* error or no endpoints (the upstream then has zero endpoints).
C5_UpstreamForEveryExistingService ==
    Built =>
        \A id \in AttachedRoutes :
            \A i \in DOMAIN routes[id].Rules :
                \A k \in DOMAIN routes[id].Rules[i].BackendRefs :
                    LET ref == routes[id].Rules[i].BackendRefs[k]
                        r == routes[id]
                    IN  passesValidation(r, ref) /\ serviceExists(r, ref)
                            => \E u \in DOMAIN conf.Upstreams :
                                /\ conf.Upstreams[u].Name = upstreamNameOf(r, ref)
                                /\ conf.Upstreams[u].Endpoints =
                                       Resolve(context,
                                               Services[[Namespace |-> r.Namespace,
                                                         Name |-> ref.Name]],
                                               ref.Port[1]).eps

\* a built Configuration with the upstream, without endpoints, of a Service
\* whose resolution failed
C5_Witness ==
    /\ Built
    /\ \E id \in AttachedRoutes :
          \E i \in DOMAIN routes[id].Rules :
              \E k \in DOMAIN routes[id].Rules[i].BackendRefs :
                  LET ref == routes[id].Rules[i].BackendRefs[k]
                  IN  /\ passesValidation(routes[id], ref)
                      /\ ref.Name = Svc3
                      /\ \E u \in DOMAIN conf.Upstreams :
                            /\ conf.Upstreams[u].Name = upstreamNameOf(routes[id], ref)
                            /\ conf.Upstreams[u].Endpoints = <<>>

ValidHTTPSListeners ==
    {n \in DOMAIN listeners : listeners[n].Valid /\ listeners[n].Protocol = "HTTPS"}

\* C6 as stated: for each valid HTTPS listener, with or without hostname and
\* routes, SSLServers holds a server with the wildcard hostname and the
\* listener's secret path as certificate path.
C6_DefaultServerPerListener ==
    Built =>
        \A n \in ValidHTTPSListeners :
            \E i \in DOMAIN conf.SSLServers :
                /\ conf.SSLServers[i].Hostname = wildcardHostname
                /\ conf.SSLServers[i].SSL = <<[CertificatePath |-> listeners[n].SecretPath]>>

\* C6 amended: for each valid HTTPS listener that has no hostname or no bound
\* route, SSLServers holds a server without PathRules whose Hostname is the
\* listener's hostname (the wildcard hostname when it has none) and whose
\* certificate path is the listener's secret path.
C6_DefaultServerForListener ==
    Built =>
        \A n \in ValidHTTPSListeners :
            listeners[n].Hostname = <<>> \/ listeners[n].Routes = {}
                => \E i \in DOMAIN conf.SSLServers :
                      conf.SSLServers[i] =
                          [Hostname |-> IF listeners[n].Hostname = <<>>
                                        THEN wildcardHostname
                                        ELSE listeners[n].Hostname[1],
                           PathRules |-> <<>>,
                           SSL |-> <<[CertificatePath |-> listeners[n].SecretPath]>>]

\* a built Configuration for an HTTPS listener without hostname that has a
\* bound route, next to an HTTPS listener with a hostname and no route
C6_Witness ==
    /\ Built
    /\ \E n, m \in ValidHTTPSListeners :
          /\ listeners[n].Hostname = <<>> /\ listeners[n].Routes # {}
          /\ listeners[m].Hostname # <<>> /\ listeners[m].Routes = {}
    /\ Len(conf.SSLServers) >= 3

\* the order of C7 on two MatchRules: route creation timestamp, route
\* namespaced name, then (RuleIdx, MatchIdx)
matchRuleBefore(x, y) ==
    LET a == routes[x.Source]
        b == routes[y.Source]
    IN  IF a.CreationTimestamp # b.CreationTimestamp
        THEN a.CreationTimestamp < b.CreationTimestamp
        ELSE IF <<a.Namespace, a.Name>> # <<b.Namespace, b.Name>>
        THEN \/ StrLess(a.Namespace, b.Namespace)
             \/ a.Namespace = b.Namespace /\ StrLess(a.Name, b.Name)
        ELSE \/ x.RuleIdx < y.RuleIdx
             \/ x.RuleIdx = y.RuleIdx /\ x.MatchIdx < y.MatchIdx

C8_SortedServersAndPaths ==
    pc = "built" =>
        \A servers \in Buckets :
            /\ \A i, j \in DOMAIN servers :
                  i < j => ~StrLess(servers[j].Hostname, servers[i].Hostname)
            /\ \A s \in DOMAIN servers :
                  \A i, j \in DOMAIN servers[s].PathRules :
                      i < j => StrLess(servers[s].PathRules[i].Path,
                                       servers[s].PathRules[j].Path)

\* a bucket with three servers of different hostnames, one of them with two
\* PathRules
C8_Witness ==
    /\ pc = "built"
    /\ \E servers \in Buckets :
          /\ Len(servers) >= 3
          /\ StrLess(servers[1].Hostname, servers[2].Hostname)
          /\ StrLess(servers[2].Hostname, servers[3].Hostname)
          /\ \E s \in DOMAIN servers : Len(servers[s].PathRules) >= 2

\* the names in the Resolved maps of the routes attached to valid listeners
ResolvedNames == UNION {DOMAIN routes[id].BackendRefs.Resolved : id \in AttachedRoutes}

\* C9: buildUpstreams returns exactly one Upstream per distinct backend name
\* in the Resolved map of a route attached to a valid listener, in ascending
\* name order, also for a name without endpoints.
C9_UpstreamsExact ==
    Built =>
        /\ {conf.Upstreams[i].Name : i \in DOMAIN conf.Upstreams} = ResolvedNames
        /\ Len(conf.Upstreams) = Cardinality(ResolvedNames)
        /\ \A i, j \in DOMAIN conf.Upstreams :
              i < j => StrLess(conf.Upstreams[i].Name, conf.Upstreams[j].Name)
        /\ \A i \in DOMAIN conf.Upstreams :
              \E id \in AttachedRoutes :
                  /\ conf.Upstreams[i].Name \in DOMAIN routes[id].BackendRefs.Resolved
                  /\ conf.Upstreams[i].Endpoints =
                         routes[id].BackendRefs.Resolved[conf.Upstreams[i].Name]

\* two Upstreams, one of them without endpoints, for a name that two routes
\* resolved and a route attached to two valid listeners
C9_Witness ==
    /\ Built
    /\ Len(conf.Upstreams) = 2
    /\ conf.Upstreams[2].Endpoints = <<>>
    /\ \E a, b \in AttachedRoutes :
          /\ a # b
          /\ DOMAIN routes[a].BackendRefs.Resolved \cap DOMAIN routes[b].BackendRefs.Resolved # {}
    /\ \E n, m \in DOMAIN listeners :
          n # m /\ listeners[n].Valid /\ listeners[m].Valid
               /\ listeners[n].Routes \cap listeners[m].Routes # {}

\* the groups in the ByRule maps of the routes attached to valid listeners
AttachedGroups ==
    UNION {{routes[id].BackendRefs.ByRule[i] : i \in DOMAIN routes[id].BackendRefs.ByRule} :
           id \in AttachedRoutes}

\* C10: buildBackendGroups returns exactly one BackendGroup per distinct
\* (source route, rule index) of the routes attached to valid listeners,
\* sorted ascending by group name.
C10_BackendGroupsExact ==
    Built =>
        /\ {conf.BackendGroups[i] : i \in DOMAIN conf.BackendGroups} = AttachedGroups
        /\ Len(conf.BackendGroups) =
               Cardinality({<<g.Source, g.RuleIdx>> : g \in AttachedGroups})
        /\ \A i, j \in DOMAIN conf.BackendGroups :
              i < j => StrLess(BackendGroup_GroupName(conf.BackendGroups[i]),
                               BackendGroup_GroupName(conf.BackendGroups[j]))

\* four groups of two routes, one of the routes attached to two valid listeners
C10_Witness ==
    /\ Built
    /\ Len(conf.BackendGroups) = 4
    /\ \E n, m \in DOMAIN listeners :
          n # m /\ listeners[n].Valid /\ listeners[m].Valid
               /\ listeners[n].Routes \cap listeners[m].Routes # {}

----------------------------------------------------------------------------
\* C11: buildConfiguration returns the empty Configuration (no HTTPServers,
\* SSLServers, Upstreams or BackendGroups) whenever the graph has no
\* GatewayClass, an invalid GatewayClass or no Gateway, whatever the listeners
\* and routes of the graph
C11_EmptyWithoutClassOrGateway ==
    (pc \in {"built", "generated"} /\ (gatewayClass # "valid" \/ ~gatewayPresent))
        => /\ conf.HTTPServers = <<>>
           /\ conf.SSLServers = <<>>
           /\ conf.Upstreams = <<>>
           /\ conf.BackendGroups = <<>>

\* an invalid GatewayClass with a Gateway whose valid listener has a route
\* with a resolved backend
C11_Witness ==
    /\ pc = "built"
    /\ gatewayClass = "invalid"
    /\ gatewayPresent
    /\ \E l \in DOMAIN listeners :
            /\ listeners[l].Valid
            /\ \E r \in listeners[l].Routes :
                    DOMAIN routes[r].BackendRefs.Resolved # {}
    /\ conf = emptyConfiguration

----------------------------------------------------------------------------
\* the listeners of the Gateway whose Valid flag is true, as a table
ValidListeners ==
    [n \in {x \in DOMAIN listeners : listeners[x].Valid} |-> listeners[n]]

\* the routes attached to invalid listeners only
RoutesOfInvalidListenersOnly ==
    UNION {listeners[n].Routes : n \in DOMAIN listeners} \ AttachedRoutes

\* the MatchRules of all VirtualServers of the Configuration
ConfMatchRules ==
    UNION {UNION {UNION {Range(servers[i].PathRules[k].MatchRules) :
                            k \in DOMAIN servers[i].PathRules} :
                  i \in DOMAIN servers} :
           servers \in Buckets}

\* C12: an invalid listener contributes nothing to the Configuration: the
\* Configuration is one the valid listeners alone give, a protocol without a
\* valid listener has no virtual server (no HTTPS default server either), and
\* a route attached only to invalid listeners is the source of no MatchRule
\* and of no BackendGroup
C12_InvalidListenerContributesNothing ==
    Built =>
        /\ conf \in {o.conf : o \in buildConfiguration(gatewayClass, gatewayPresent,
                                                       ValidListeners, routes)}
        /\ (\A n \in DOMAIN ValidListeners : listeners[n].Protocol # "HTTPS")
                => conf.SSLServers = <<>>
        /\ (\A n \in DOMAIN ValidListeners : listeners[n].Protocol # "HTTP")
                => conf.HTTPServers = <<>>
        /\ \A id \in RoutesOfInvalidListenersOnly :
                /\ \A m \in ConfMatchRules : m.Source # id
                /\ \A i \in DOMAIN conf.BackendGroups :
                        conf.BackendGroups[i].Source
                            # [Namespace |-> routes[id].Namespace, Name |-> routes[id].Name]
        /\ DOMAIN ValidListeners = {} => conf = emptyConfiguration

\* an invalid HTTPS listener with a route that resolved a backend, next to a
\* valid listener, and nothing in the Configuration for that route
C12_Witness ==
    /\ Built
    /\ DOMAIN ValidListeners # {}
    /\ \E n \in DOMAIN listeners :
            /\ ~listeners[n].Valid
            /\ listeners[n].Protocol = "HTTPS"
            /\ \E id \in listeners[n].Routes :
                    /\ id \in RoutesOfInvalidListenersOnly
                    /\ DOMAIN routes[id].BackendRefs.Resolved # {}
    /\ conf.SSLServers = <<>>

----------------------------------------------------------------------------
\* the cycle is past resolveBackendRefs
BackendRefsResolved == pc # "start"

\* a backendRef that fails validation or names a Service that does not exist
refFails(r, ref) == ~passesValidation(r, ref) \/ ~serviceExists(r, ref)

\* the weight of a backendRef, 1 when absent
weightOf(ref) == IF ref.Weight = <<>> THEN 1 ELSE ref.Weight[1]

\* the backendRefs of all rules of a route, in order
allBackendRefs(r) ==
    FoldLeft(LAMBDA acc, rl : acc \o rl.BackendRefs, <<>>, r.Rules)

\* C13: resolveBackendRefsForRoutes gives every route, for every rule index
\* i, a BackendGroup with the route's namespaced name as Source, RuleIdx i and
\* one BackendRef per entry of the rule's backendRefs in the same order: an
\* entry that fails validation or names a missing Service has an empty Name,
\* Valid false and its weight, and adds exactly one message to the route's
\* Errors; every other entry is Valid and named <ns>_<svc>_<port>; an absent
\* weight counts as 1
C13_BackendGroupPerRule ==
    BackendRefsResolved =>
        \A id \in DOMAIN routes :
            LET r == routes[id]
                errs == r.BackendRefs.Errors
            IN  /\ DOMAIN r.BackendRefs.ByRule = {i - 1 : i \in DOMAIN r.Rules}
                /\ \A i \in DOMAIN r.Rules :
                        LET group == r.BackendRefs.ByRule[i - 1]
                            refs == r.Rules[i].BackendRefs
                        IN  /\ group.Source = [Namespace |-> r.Namespace, Name |-> r.Name]
                            /\ group.RuleIdx = i - 1
                            /\ Len(group.Backends) = Len(refs)
                            /\ \A k \in DOMAIN refs :
                                    group.Backends[k] =
                                        IF refFails(r, refs[k])
                                        THEN [Name |-> <<>>, Valid |-> FALSE,
                                              Weight |-> weightOf(refs[k])]
                                        ELSE [Name |-> upstreamNameOf(r, refs[k]),
                                              Valid |-> TRUE,
                                              Weight |-> weightOf(refs[k])]
                /\ Len(SelectSeq(errs, LAMBDA msg :
                                msg \notin {"resolve error", "context canceled"}))
                        = Len(SelectSeq(allBackendRefs(r), LAMBDA ref : refFails(r, ref)))

\* a rule with two backendRefs, the first good and the second to a missing
\* Service, resolved to two backends in that order
C13_Witness ==
    /\ BackendRefsResolved
    /\ \E id \in DOMAIN routes :
            \E i \in DOMAIN routes[id].Rules :
                LET refs == routes[id].Rules[i].BackendRefs
                    bs == routes[id].BackendRefs.ByRule[i - 1].Backends
                IN  /\ Len(refs) = 2
                    /\ ~refFails(routes[id], refs[1])
                    /\ refFails(routes[id], refs[2])
                    /\ Len(bs) = 2
                    /\ bs[1].Valid /\ ~bs[2].Valid
                    /\ bs[2].Weight = 2
                    /\ Len(routes[id].BackendRefs.Errors) = 1

----------------------------------------------------------------------------
\* the single server of an upstream that answers 502
Only502Server == <<[Address |-> nginx502Server]>>

\* C14: createUpstreams maps every input Upstream, in input order, to an
\* nginx upstream of the same name, with the one 502 socket server when it
\* has no endpoints and else with one server "address:port" per endpoint in
\* endpoint order; the invalid-backend-ref upstream with the single 502
\* server comes last, so the output is one longer than the input
C14_UpstreamsMapped ==
    pc = "generated" =>
        /\ Len(nginx.Upstreams) = Len(conf.Upstreams) + 1
        /\ nginx.Upstreams[Len(nginx.Upstreams)]
                = [Name |-> invalidBackendRef, Servers |-> Only502Server]
        /\ \A i \in DOMAIN conf.Upstreams :
                LET eps == conf.Upstreams[i].Endpoints
                    out == nginx.Upstreams[i]
                IN  /\ out.Name = conf.Upstreams[i].Name
                    /\ IF Len(eps) = 0
                       THEN out.Servers = Only502Server
                       ELSE /\ Len(out.Servers) = Len(eps)
                            /\ \A k \in DOMAIN eps :
                                    out.Servers[k].Address
                                        = eps[k].Address \o <<58>> \o Itoa(eps[k].Port)

\* two upstreams generated, the first without endpoints and the second with
\* two different ones
C14_Witness ==
    /\ pc = "generated"
    /\ Len(conf.Upstreams) = 2
    /\ Len(conf.Upstreams[1].Endpoints) = 0
    /\ Len(conf.Upstreams[2].Endpoints) = 2
    /\ conf.Upstreams[2].Endpoints[1] # conf.Upstreams[2].Endpoints[2]
    /\ Len(nginx.Upstreams) = 3
    /\ Len(nginx.Upstreams[2].Servers) = 2

----------------------------------------------------------------------------
\* the VirtualServers createServers goes through, in its order
VirtualServers == conf.HTTPServers \o conf.SSLServers

\* the server createServers generated for VirtualServers[i]: the default
\* servers come first
generatedServer(i) == nginx.Servers[Len(nginx.Servers) - Len(VirtualServers) + i]

\* a PathRule that gets internal match locations and a dispatching location
dispatches(pathRule) ==
    /\ Len(pathRule.MatchRules) > 0
    /\ ~(/\ Len(pathRule.MatchRules) = 1
         /\ isPathOnlyMatch(GetMatch(routes, pathRule.MatchRules[1])))

\* the number of locations the PathRules before the q-th of v account for
RECURSIVE locationsBefore(_, _)
locationsBefore(v, q) ==
    IF q = 1 THEN 0
    ELSE locationsBefore(v, q - 1) + Len(v.PathRules[q - 1].MatchRules)
            + (IF dispatches(v.PathRules[q - 1]) THEN 1 ELSE 0)

\* the location of the j-th MatchRule of the q-th PathRule of VirtualServers[i]
locationOfMatchRule(i, q, j) ==
    generatedServer(i).Locations[locationsBefore(VirtualServers[i], q) + j]

\* the fields among Return, ProxyPass and HTTPMatchVar a location has set
fieldsSet(loc) == {f \in {"Return", "ProxyPass", "HTTPMatchVar"} : loc[f] # <<>>}

\* C15: redirect and proxying are mutually exclusive in createServer: every
\* location has exactly one of Return, ProxyPass and HTTPMatchVar set, and
\* the location of a MatchRule with Filters.RequestRedirect set has Return and
\* no ProxyPass, be it the plain path location or an internal match location
C15_RedirectExcludesProxy ==
    pc = "generated" =>
        /\ \A loc \in Locations : Cardinality(fieldsSet(loc)) = 1
        /\ \A i \in DOMAIN VirtualServers :
                \A q \in DOMAIN VirtualServers[i].PathRules :
                    \A j \in DOMAIN VirtualServers[i].PathRules[q].MatchRules :
                        VirtualServers[i].PathRules[q].MatchRules[j].Filters.RequestRedirect # <<>>
                            => fieldsSet(locationOfMatchRule(i, q, j)) = {"Return"}

\* a redirect generated both as a plain path location and as an internal
\* match location
C15_Witness ==
    /\ pc = "generated"
    /\ \E i \in DOMAIN VirtualServers :
            \E q \in DOMAIN VirtualServers[i].PathRules :
                \E j \in DOMAIN VirtualServers[i].PathRules[q].MatchRules :
                    /\ VirtualServers[i].PathRules[q].MatchRules[j].Filters.RequestRedirect # <<>>
                    /\ locationOfMatchRule(i, q, j).Internal
                    /\ locationOfMatchRule(i, q, j).Return # <<>>
                    /\ locationOfMatchRule(i, q, j).ProxyPass = <<>>

----------------------------------------------------------------------------
\* "$scheme", "$host" and "$request_uri"
VarScheme == <<36, 115, 99, 104, 101, 109, 101>>
VarHost == <<36, 104, 111, 115, 116>>
VarRequestURI == <<36, 114, 101, 113, 117, 101, 115, 116, 95, 117, 114, 105>>

\* the value of an optional field, or its default
orDefault(field, default) == IF field = <<>> THEN default ELSE field[1]

\* the Return the claim gives for a redirect filter f behind listenerPort
expectedReturn(f, listenerPort) ==
    [Code |-> orDefault(f.StatusCode, 302),
     URL |-> orDefault(f.Scheme, VarScheme) \o <<58, 47, 47>>
                \o orDefault(f.Hostname, VarHost) \o <<58>>
                \o Itoa(orDefault(f.Port, listenerPort)) \o VarRequestURI]

----------------------------------------------------------------------------
\* the entries of a slice that may be nil
entriesOf(slice) == IF slice = <<>> THEN <<>> ELSE slice[1]

\* a match without method, header entries and query param entries
hasNoConditions(m) ==
    m.Method = <<>> /\ entriesOf(m.Headers) = <<>> /\ entriesOf(m.QueryParams) = <<>>

\* a PathRule with exactly one MatchRule, whose match has no conditions
singleUnconditional(pathRule) ==
    /\ Len(pathRule.MatchRules) = 1
    /\ hasNoConditions(GetMatch(routes, pathRule.MatchRules[1]))

\* a PathRule with exactly one MatchRule, whose match has Method, Headers and
\* QueryParams all nil
singleAllNil(pathRule) == ~dispatches(pathRule) /\ Len(pathRule.MatchRules) = 1

\* <path>_route<idx>
internalPath(path, idx) == path \o <<95, 114, 111, 117, 116, 101>> \o Itoa(idx)

\* "redirectPath":" in a marshalled match
RedirectPathKey ==
    <<34, 114, 101, 100, 105, 114, 101, 99, 116, 80, 97, 116, 104, 34, 58, 34>>

\* the redirectPath values of a marshalled list of matches from position p
\* on, in their order
RECURSIVE redirectPathsFrom(_, _)
redirectPathsFrom(json, p) ==
    IF p + Len(RedirectPathKey) > Len(json) THEN <<>>
    ELSE IF SubSeq(json, p, p + Len(RedirectPathKey) - 1) = RedirectPathKey
    THEN LET start == p + Len(RedirectPathKey)
             end == CHOOSE e \in start..Len(json) :
                        json[e] = 34 /\ \A x \in start..(e - 1) : json[x] # 34
         IN  <<SubSeq(json, start, end - 1)>> \o redirectPathsFrom(json, end + 1)
    ELSE redirectPathsFrom(json, p + 1)

\* what the claim says of a location: its path, whether it is internal,
\* whether it has a match variable and the redirect paths the variable lists
shapeOf(loc) ==
    [Path |-> loc.Path, Internal |-> loc.Internal,
     HasMatchVar |-> loc.HTTPMatchVar # <<>>,
     RedirectPaths |-> redirectPathsFrom(loc.HTTPMatchVar, 1)]

\* the shapes of the locations of a PathRule: one location at the path when
\* Single holds of it, else the internal locations and the dispatching one
shapesOfPathRule(Single(_), pathRule) ==
    LET k == Len(pathRule.MatchRules)
    IN  IF Single(pathRule)
        THEN <<[Path |-> pathRule.Path, Internal |-> FALSE, HasMatchVar |-> FALSE,
                RedirectPaths |-> <<>>]>>
        ELSE [j \in 1..k |-> [Path |-> internalPath(pathRule.Path, j - 1),
                              Internal |-> TRUE, HasMatchVar |-> FALSE,
                              RedirectPaths |-> <<>>]]
             \o <<[Path |-> pathRule.Path, Internal |-> FALSE, HasMatchVar |-> TRUE,
                   RedirectPaths |-> [j \in 1..k |-> internalPath(pathRule.Path, j - 1)]]>>

\* the locations of the server generated for every VirtualServer have the
\* shapes of its PathRules in order; without PathRules there is the single
\* location "/" returning 404
locationsShaped(Single(_)) ==
    \A i \in DOMAIN VirtualServers :
        LET v == VirtualServers[i]
            locs == generatedServer(i).Locations
        IN  IF v.PathRules = <<>>
            THEN /\ Len(locs) = 1
                 /\ shapeOf(locs[1]) = [Path |-> <<47>>, Internal |-> FALSE,
                                        HasMatchVar |-> FALSE, RedirectPaths |-> <<>>]
                 /\ locs[1].Return # <<>>
                 /\ locs[1].Return[1].Code = 404
                 /\ locs[1].ProxyPass = <<>>
            ELSE [n \in DOMAIN locs |-> shapeOf(locs[n])]
                    = FoldLeft(LAMBDA acc, pathRule :
                                  acc \o shapesOfPathRule(Single, pathRule),
                               <<>>, v.PathRules)

----------------------------------------------------------------------------
\* the VirtualServers of a listener's protocol
serversOfProtocol(protocol) ==
    IF protocol = "HTTPS" THEN conf.SSLServers ELSE conf.HTTPServers

\* the MatchRules of a VirtualServer
matchRulesOf(v) ==
    UNION {Range(v.PathRules[k].MatchRules) : k \in DOMAIN v.PathRules}

\* C18: a route with an empty hostname list that is bound to a valid listener
\* is served under the listener's hostname, or under the wildcard sentinel
\* when the listener has none: the virtual server for that accepted hostname
\* contains one MatchRule for every (rule, match) pair of the route.
C18_RouteWithoutHostnamesServed ==
    Built =>
        \A n \in DOMAIN ValidListeners :
            \A id \in listeners[n].Routes :
                routes[id].Hostnames = <<>> =>
                    LET accepted == IF listeners[n].Hostname = <<>> THEN wildcardHostname
                                    ELSE listeners[n].Hostname[1]
                        servers == serversOfProtocol(listeners[n].Protocol)
                    IN  \E s \in DOMAIN servers :
                            /\ servers[s].Hostname = accepted
                            /\ \A i \in DOMAIN routes[id].Rules :
                                    \A j \in DOMAIN routes[id].Rules[i].Matches :
                                        Cardinality({m \in matchRulesOf(servers[s]) :
                                                        /\ m.Source = id
                                                        /\ m.RuleIdx = i - 1
                                                        /\ m.MatchIdx = j - 1}) = 1

----------------------------------------------------------------------------
\* a backendRef whose Service resolves to endpoints as long as the ctx is live
resolvesWhenLive(r, ref) ==
    /\ passesValidation(r, ref)
    /\ serviceExists(r, ref)
    /\ Resolve("live", Services[[Namespace |-> r.Namespace, Name |-> ref.Name]],
               ref.Port[1]).eps # <<>>

\* C19: cancellation aborts the cycle without partial emission: when the ctx
\* passed to resolveBackendRefs is cancelled and a resolver call therefore
\* fails, no Configuration is produced from that cycle, no backend is recorded
\* as valid with an empty endpoint set and no upstream without endpoints is
\* emitted because of the cancelled call.
C19_CancellationAborts ==
    context = "cancelled" =>
        /\ pc \notin {"built", "generated"}
        /\ pc # "start" =>
                \A id \in DOMAIN routes :
                    \A i \in DOMAIN routes[id].Rules :
                        \A k \in DOMAIN routes[id].Rules[i].BackendRefs :
                            LET ref == routes[id].Rules[i].BackendRefs[k]
                                b == routes[id].BackendRefs.ByRule[i - 1].Backends[k]
                            IN  resolvesWhenLive(routes[id], ref) =>
                                    ~(/\ b.Valid
                                      /\ b.Name \in DOMAIN routes[id].BackendRefs.Resolved
                                      /\ routes[id].BackendRefs.Resolved[b.Name] = <<>>)
        /\ \A u \in DOMAIN conf.Upstreams : conf.Upstreams[u].Endpoints # <<>>

----------------------------------------------------------------------------
\* <ns>_<route>_rule<idx>
groupNameOf(bg) ==
    bg.Source.Namespace \o <<95>> \o bg.Source.Name \o <<95, 114, 117, 108, 101>>
        \o Itoa(bg.RuleIdx)

\* the name the claim gives a group
nameOf(bg) ==
    IF Len(bg.Backends) >= 2 THEN groupNameOf(bg)
    ELSE IF Len(bg.Backends) = 1 /\ bg.Backends[1].Valid /\ bg.Backends[1].Weight > 0
    THEN bg.Backends[1].Name
    ELSE <<>>

\* "http://" and "http://$"
HTTPPrefix == <<104, 116, 116, 112, 58, 47, 47>>
HTTPVarPrefix == <<104, 116, 116, 112, 58, 47, 47, 36>>

\* the groups of the rules of all routes and those of the Configuration
KnownGroups ==
    UNION {{routes[id].BackendRefs.ByRule[i] : i \in DOMAIN routes[id].BackendRefs.ByRule} :
           id \in DOMAIN routes}
        \cup Range(conf.BackendGroups)

\* C20: BackendGroup.Name is <ns>_<route>_rule<idx> for a group with two or
\* more backends whatever their validity and weights, the backend's name for
\* a group with exactly one backend that is valid and has weight > 0, and
\* empty in every other case (no backend, one invalid backend, one backend
\* with weight <= 0), where createServer proxies to invalid-backend-ref;
\* NeedsSplit is true exactly when the group has more than one backend (the
\* groups that get a split client and are proxied to by variable)
C20_BackendGroupName ==
    /\ \A bg \in KnownGroups :
            /\ BackendGroup_Name(bg) = nameOf(bg)
            /\ BackendGroup_NeedsSplit(bg) <=> Len(bg.Backends) > 1
    /\ pc = "generated" =>
        /\ \A i \in DOMAIN VirtualServers :
                \A q \in DOMAIN VirtualServers[i].PathRules :
                    \A j \in DOMAIN VirtualServers[i].PathRules[q].MatchRules :
                        LET m == VirtualServers[i].PathRules[q].MatchRules[j]
                            bg == m.BackendGroup
                        IN  m.Filters.RequestRedirect = <<>> =>
                                locationOfMatchRule(i, q, j).ProxyPass =
                                    IF Len(bg.Backends) > 1
                                    THEN HTTPVarPrefix \o groupNameOf(bg)
                                    ELSE IF nameOf(bg) = <<>>
                                    THEN HTTPPrefix \o invalidBackendRef
                                    ELSE HTTPPrefix \o nameOf(bg)
        /\ Len(nginx.SplitClients)
                = Len(SelectSeq(conf.BackendGroups, LAMBDA bg : Len(bg.Backends) > 1))

\* a group whose single backend is valid with weight 0, proxied to
\* invalid-backend-ref
C20_Witness ==
    /\ pc = "generated"
    /\ \E i \in DOMAIN VirtualServers :
            \E q \in DOMAIN VirtualServers[i].PathRules :
                LET m == VirtualServers[i].PathRules[q].MatchRules[1]
                IN  /\ m.Filters.RequestRedirect = <<>>
                    /\ Len(m.BackendGroup.Backends) = 1
                    /\ m.BackendGroup.Backends[1].Valid
                    /\ m.BackendGroup.Backends[1].Weight = 0
                    /\ locationOfMatchRule(i, q, 1).ProxyPass = HTTPPrefix \o invalidBackendRef

----------------------------------------------------------------------------
\* the call of op has returned
Returned(op) == pc = "returned" /\ call.op = op

\* what the claim rejects a backendRef for
rejected(ref, routeNs) ==
    \/ ref.Kind # <<>> /\ ref.Kind # <<"Service">>
    \/ ref.Namespace # <<>> /\ ref.Namespace # <<routeNs>>
    \/ ref.Port = <<>>

\* C21: validateBackendRef returns an error exactly when the kind is set and
\* is not Service, or the namespace is set and differs from the route's
\* namespace, or the port is absent (an unset kind and an unset namespace are
\* accepted); getServiceAndPortFromRef returns no service and port 0 whenever
\* validation fails or the Service is not in the services map
C21_BackendRefValidation ==
    /\ Returned("validateBackendRef") =>
            (call.out.err # <<>> <=> rejected(call.in.ref, call.in.routeNs))
    /\ Returned("getServiceAndPortFromRef") =>
            LET key == [Namespace |-> call.in.routeNs, Name |-> call.in.ref.Name]
            IN  IF rejected(call.in.ref, call.in.routeNs) \/ key \notin DOMAIN Services
                THEN call.out.svc = <<>> /\ call.out.port = 0 /\ call.out.err # <<>>
                ELSE /\ call.out.svc = <<Services[key]>>
                     /\ call.out.port = call.in.ref.Port[1]
                     /\ call.out.err = <<>>

\* a backendRef with kind and namespace unset was accepted
C21_Witness ==
    /\ Returned("validateBackendRef")
    /\ call.in.ref.Kind = <<>>
    /\ call.in.ref.Namespace = <<>>
    /\ call.in.ref.Port # <<>>
    /\ call.out.err = <<>>

----------------------------------------------------------------------------
\* the positions of the filters of type RequestRedirect in a filter list
redirectPositions(filters) == {i \in DOMAIN filters : filters[i].Type = "RequestRedirect"}

\* C22: createFilters honours only the first RequestRedirect filter of a
\* rule's filter list: the result's RequestRedirect is the redirect of the
\* first filter of that type in list order, a later filter of that type
\* never replaces it, and with no such filter the result is empty
C22_FirstRedirectFilter ==
    Returned("createFilters") =>
        LET at == redirectPositions(call.in)
        IN  IF at = {} THEN call.out.RequestRedirect = <<>>
            ELSE \E i \in at :
                    /\ \A j \in at : i <= j
                    /\ call.out.RequestRedirect = call.in[i].RequestRedirect

\* a filter of another type, then the redirect to foo, then the redirect to
\* bar: the result is the redirect to foo
C22_Witness ==
    /\ Returned("createFilters")
    /\ Len(call.in) = 3
    /\ call.in[1].Type # "RequestRedirect"
    /\ call.in[2] = redirectFilter
    /\ call.in[3] = redirectFilterBar
    /\ call.out.RequestRedirect = redirectFilter.RequestRedirect

----------------------------------------------------------------------------
\* how often registerController called IndexField for a field, and mgr.Add
indexFieldCallCount(field) ==
    Cardinality({i \in DOMAIN call.log : call.log[i] = <<"IndexField", field>>})

addCallCount == Cardinality({i \in DOMAIN call.log : call.log[i] = <<"Add">>})

registering == pc \in {"call", "returned"} /\ call.op = "registerController"

\* an IndexField call of the log returned an error
indexFailed == indexedFields(call) \cap call.in.indexFieldFails # {}

\* C23 as stated: registerController calls IndexField once per configured
\* field index
C23_IndexFieldOncePerIndex ==
    Returned("registerController") =>
        \A field \in call.in.fieldIndexes : indexFieldCallCount(field) = 1

\* C23 as amended: IndexField is called at most once per field index and
\* only for configured ones, and once for each of them before the controller
\* is added and whenever no registration failed; when a registration fails
\* the result wraps that failure and mgr.Add is never called; when building
\* the controller fails the result wraps that failure; the result is nil
\* only when both steps succeeded
C23_IndexesBeforeController ==
    registering =>
        /\ \A field \in FieldNames :
                indexFieldCallCount(field) <=
                    (IF field \in call.in.fieldIndexes THEN 1 ELSE 0)
        /\ \A i \in DOMAIN call.log :
                call.log[i] = <<"Add">> =>
                    /\ i = Len(call.log)
                    /\ \A field \in call.in.fieldIndexes :
                            \E j \in 1..(i - 1) : call.log[j] = <<"IndexField", field>>
        /\ indexFailed =>
                /\ pc = "returned"
                /\ errorsIs(call.out.err, testError)
                /\ Head(call.out.err) = "failed to add index when registering a controller"
                /\ addCallCount = 0
        /\ pc = "returned" /\ ~indexFailed =>
                /\ \A field \in call.in.fieldIndexes : indexFieldCallCount(field) = 1
                /\ call.in.complete # "added" =>
                        /\ errorsIs(call.out.err, testError)
                        /\ Head(call.out.err) = "cannot build a controller"
                /\ call.in.complete = "added" => call.out.err = <<>> /\ addCallCount = 1
        /\ pc = "returned" /\ call.out.err = <<>> =>
                ~indexFailed /\ call.in.complete = "added"

\* two field indexes are configured, the second registration fails: the
\* result wraps the failure and the controller was not added
C23_Witness ==
    /\ Returned("registerController")
    /\ Cardinality(call.in.fieldIndexes) = 2
    /\ Len(call.log) = 2
    /\ call.log[2][2] \in call.in.indexFieldFails
    /\ errorsIs(call.out.err, testError)
    /\ addCallCount = 0

----------------------------------------------------------------------------
\* the entries of an optional slice
listOf(slice) == IF slice = <<>> THEN <<>> ELSE slice[1]

\* the positions of the Exact headers that are the first Exact header of
\* their name, names compared case-insensitively
keptHeaders(hs) ==
    {i \in DOMAIN hs :
        /\ hs[i].Type = "Exact"
        /\ \A j \in 1..(i - 1) :
                hs[j].Type = "Exact" => ToLower(hs[j].Name) # ToLower(hs[i].Name)}

\* the positions of the Exact query params
keptQueryParams(ps) == {i \in DOMAIN ps : ps[i].Type = "Exact"}

\* the k-th position of a set of positions, in increasing order
nthOf(positions, k) ==
    CHOOSE i \in positions : Cardinality({j \in positions : j < i}) = k - 1

\* C24: createHTTPMatch always sets RedirectPath, and sets Any=true exactly
\* when the match has no method, no headers and no query params; otherwise
\* Headers lists "name:value" for the Exact headers in input order keeping
\* only the first entry of each header name compared case-insensitively,
\* QueryParams lists "name=value" for the Exact query params in input order
\* with names and values unchanged, and regular-expression headers and query
\* params are skipped
C24_HTTPMatch ==
    Returned("createHTTPMatch") =>
        LET m == call.in.match
            hs == listOf(m.Headers)
            ps == listOf(m.QueryParams)
            hm == call.out
        IN  /\ hm.RedirectPath = call.in.redirectPath
            /\ hm.Any <=> (m.Method = <<>> /\ hs = <<>> /\ ps = <<>>)
            /\ ~hm.Any =>
                    /\ Len(hm.Headers) = Cardinality(keptHeaders(hs))
                    /\ \A k \in DOMAIN hm.Headers :
                            LET h == hs[nthOf(keptHeaders(hs), k)]
                            IN  hm.Headers[k] = h.Name \o <<58>> \o h.Value
                    /\ Len(hm.QueryParams) = Cardinality(keptQueryParams(ps))
                    /\ \A k \in DOMAIN hm.QueryParams :
                            LET q == ps[nthOf(keptQueryParams(ps), k)]
                            IN  hm.QueryParams[k] = q.Name \o <<61>> \o q.Value

----------------------------------------------------------------------------
\* the locations of a generated server at a path
locationsAt(server, path) ==
    {i \in DOMAIN server.Locations : server.Locations[i].Path = path}

\* C25: generateServer emits, for a PathRule with exactly one path-only
\* MatchRule, exactly one location for that path, and when that MatchRule
\* carries a RequestRedirect filter no location generated for that path has
\* ProxyPass set
C25_OneLocationForPathOnlyRule ==
    Returned("generateServer") =>
        \A i \in DOMAIN call.in.server.PathRules :
            LET pathRule == call.in.server.PathRules[i]
                r == pathRule.MatchRules[1]
            IN  Len(pathRule.MatchRules) = 1 /\ isPathOnlyMatch(GetMatch(call.in.routes, r)) =>
                    /\ Cardinality(locationsAt(call.out, pathRule.Path)) = 1
                    /\ r.Filters.RequestRedirect # <<>> =>
                            \A k \in locationsAt(call.out, pathRule.Path) :
                                call.out.Locations[k].ProxyPass = <<>>

----------------------------------------------------------------------------
\* C26: within one server generated by createServer, all location paths are
\* pairwise distinct, for every list of PathRules with pairwise distinct
\* paths; this includes the internal match locations <path>_route<idx> of one
\* PathRule against the path of any other PathRule
C26_DistinctLocationPaths ==
    Returned("createServer") =>
        LET pathRules == call.in.server.PathRules
            locs == call.out.Locations
        IN  (\A i, j \in DOMAIN pathRules : i # j => pathRules[i].Path # pathRules[j].Path)
                => \A i, j \in DOMAIN locs : i # j => locs[i].Path # locs[j].Path

----------------------------------------------------------------------------
\* C27: two different backend groups that need a split (different source
\* route or different rule index) never get the same split_clients variable
\* name from createSplitClients, namespaces and route names being DNS labels
\* that may contain dashes and dashes being converted to underscores
C27_DistinctSplitVariables ==
    Returned("createSplitClients") =>
        /\ Len(call.out) = Len(call.in)
        /\ \A i, j \in DOMAIN call.in :
                /\ BackendGroup_NeedsSplit(call.in[i])
                /\ BackendGroup_NeedsSplit(call.in[j])
                /\ \/ call.in[i].Source # call.in[j].Source
                   \/ call.in[i].RuleIdx # call.in[j].RuleIdx
                => call.out[i].VariableName # call.out[j].VariableName

----------------------------------------------------------------------------
\* C28: in a split distribution for a group with positive total weight, a
\* backend whose weight is 0 is assigned 0.00 percent, whatever its position
\* in the backend list, also when it is the last backend and the other
\* percentages were rounded down
C28_ZeroWeightZeroPercent ==
    pc = "generated" =>
        LET groups == SelectSeq(conf.BackendGroups, LAMBDA g : Len(g.Backends) >= 2)
        IN  \A k \in DOMAIN groups :
                totalWeightOf(groups[k]) > 0 =>
                    \A i \in DOMAIN groups[k].Backends :
                        groups[k].Backends[i].Weight = 0 =>
                            nginx.SplitClients[k].Distributions[i].Percent = <<48, 46, 48, 48>>

----------------------------------------------------------------------------
\* C29: the "no listener found for hostname" panic in
\* hostPathRules.buildServers is unreachable: after any sequence of
\* upsertListener calls, every hostname that is a key of rulesPerHost is also
\* a key of listenersForHost, and the listener recorded for it is one whose
\* AcceptedHostnames contains that hostname
C29_ListenerForEveryHost ==
    pc \in {"call", "returned"} /\ call.op = "upsertListener" =>
        /\ \A h \in DOMAIN call.hpr.rulesPerHost :
                /\ h \in DOMAIN call.hpr.listenersForHost
                /\ h \in call.in.listeners[call.hpr.listenersForHost[h]].AcceptedHostnames
        /\ pc = "returned" => ~call.out.panic

\* two listeners were upserted, rulesPerHost has the hosts foo and bar, each
\* recorded for another listener, and buildServers returned two servers
C29_Witness ==
    /\ Returned("upsertListener")
    /\ call.upserts = 2
    /\ DOMAIN call.hpr.rulesPerHost = {Foo, Bar}
    /\ call.hpr.listenersForHost[Foo] # call.hpr.listenersForHost[Bar]
    /\ ~call.out.panic
    /\ Len(call.out.servers) = 2

----------------------------------------------------------------------------
\* a MatchRule indexes a rule of its Source route and a match of that rule
inRange(r) ==
    /\ r.Source \in DOMAIN routes
    /\ r.RuleIdx \in 0..(Len(routes[r.Source].Rules) - 1)
    /\ r.MatchIdx \in 0..(Len(routes[r.Source].Rules[r.RuleIdx + 1].Matches) - 1)

\* the path of a match, an absent or empty path read as "/"
pathOfMatch(m) == IF m.Path = <<>> \/ m.Path = <<<<>>>> THEN <<47>> ELSE m.Path[1]

\* C30: every MatchRule in a Configuration built by buildConfiguration has
\* RuleIdx within the rules of its Source route and MatchIdx within the
\* matches of that rule, so MatchRule.GetMatch never indexes out of range,
\* and the path of the match it returns (an absent or empty path read as
\* "/") equals the Path of the PathRule that contains the MatchRule
C30_MatchRuleIndexes ==
    pc = "built" =>
        \A i \in DOMAIN VirtualServers :
            \A k \in DOMAIN VirtualServers[i].PathRules :
                LET pathRule == VirtualServers[i].PathRules[k]
                IN  \A q \in DOMAIN pathRule.MatchRules :
                        /\ inRange(pathRule.MatchRules[q])
                        /\ pathOfMatch(GetMatch(routes, pathRule.MatchRules[q])) = pathRule.Path

\* the PathRule "/" holds the MatchRule of the first match of the second rule
\* of a route, a match without path
C30_Witness ==
    /\ pc = "built"
    /\ \E i \in DOMAIN VirtualServers :
        \E k \in DOMAIN VirtualServers[i].PathRules :
            LET pathRule == VirtualServers[i].PathRules[k]
            IN  /\ pathRule.Path = <<47>>
                /\ \E q \in DOMAIN pathRule.MatchRules :
                        /\ pathRule.MatchRules[q].RuleIdx = 1
                        /\ pathRule.MatchRules[q].MatchIdx = 0
                        /\ inRange(pathRule.MatchRules[q])
                        /\ GetMatch(routes, pathRule.MatchRules[q]).Path = <<>>

====
